---- MODULE Spec2Model ----
(***************************************************************************)
(* The tamper-detection and escalation engine of GameGuardian.             *)
(*                                                                         *)
(* Server side (src/unnamed/part_000, the Express server): the player      *)
(* store, the three POST handlers (log-tampering, register-player,         *)
(* sync-game-values) and verifyGameValues.  Every handler is split at its  *)
(* awaits: one action per store operation, so that two requests interleave *)
(* exactly where the event loop lets them.                                 *)
(***************************************************************************)
EXTENDS Integers, Sequences, FiniteSets, TLC

VARIABLES
    load,           \* the workload: requests in flight, reports, accepted syncs, clock
    db,             \* TRUE once connectToDatabase has set `db`
    now,            \* the server clock, in milliseconds since the server started
    players,        \* collection 'players', keyed by playerId (unique index)
    tamperingLogs,  \* collection 'tampering_logs', in insertion order
    syncLogs,       \* collection 'sync_logs', in insertion order
    pc,             \* per request slot: where the handler stands
    req,            \* per request slot: the request (headers and body)
    loc,            \* per request slot: the handler's local variables
    resp,           \* per request slot: the response sent, NoResp before
    violations,     \* history: per player, violation events decided so far
    missed,         \* history: per player, $inc updates that matched no record
    run,            \* history: per player, how far the fresh-player scenario got
    base,           \* history: the record two racing requests started from
    sent,           \* history: per slot, the racing request as it was received
    vin,            \* input of a direct call of verifyGameValues
    vout,           \* its result
    gameValue,      \* the fields of one GameValue (src/unnamed/part_001)
    heap,           \* the objects the container and its caller refer to
    passed,         \* the caller's value given to the constructor or the last set
    got,            \* the caller's value returned by the last get
    call,           \* the last call of the container and how it ended
    given,          \* history: the content of the value the container was made from
    fresh,          \* history: a set was called and only get or verify since
    tampered,       \* history: currentValue was written past the container since
                    \* the last completed set or reset
    shield,         \* the fields of one GuardianShield and of its MemoryProtector
    cycle,          \* where the shield's running call stands, and what it did
    android         \* the fields of one GameGuardianShield, its looper and executor

vars == <<load, db, now, players, tamperingLogs, syncLogs, pc, req, loc, resp,
          violations, missed, run, base, sent, vin, vout,
          gameValue, heap, passed, got, call, given, fresh, tampered,
          shield, cycle, android>>

storeVars == <<players, tamperingLogs, syncLogs>>
callVars == <<vin, vout>>
valueVars == <<gameValue, heap, passed, got, call, given, fresh, tampered>>
guardVars == <<shield, cycle, android>>
clientVars == <<valueVars, guardVars>>
\* fixed by the initial state
setupVars == <<load, base, sent>>

-----------------------------------------------------------------------------
(* Bounds of the model *)

MaxTicks == 1
MaxReports == 1
MaxSyncs == 1

TickMs == 60000 \div 2
Slots == {1, 2}
\* the ids a player registers under, and an id nobody registers
PlayerIds == {"p1"}
UnknownIds == {"p0"}
Ids == PlayerIds \cup UnknownIds

-----------------------------------------------------------------------------
(* Program constants *)

maxTamperingAttempts == 3
maxCoinsPerMinute == 1000
maxXpPerMinute == 500
DefaultMaxHealth == 100
DefaultRegenRate == 5
MsPerMinute == 60000
FutureToleranceMs == 5 * 60 * 1000

-----------------------------------------------------------------------------
(* Values *)

NoId == ""
\* the longest playerId or deviceId a handler accepts
MaxFieldLength == 100
NoTime == 0 - 1
EmptyData == [k \in {} |-> 0]

Max0(x) == IF x > 0 THEN x ELSE 0

Has(obj, k) == k \in DOMAIN obj

\* obj[k] || d  (undefined and 0 are falsy)
OrDefault(obj, k, d) == IF Has(obj, k) /\ obj[k] # 0 THEN obj[k] ELSE d

\* { ...a, ...b }
Spread(a, b) ==
    [k \in DOMAIN a \cup DOMAIN b |-> IF k \in DOMAIN b THEN b[k] ELSE a[k]]

NoTimestamp == [parsable |-> FALSE, ms |-> 0]
At(t) == [parsable |-> TRUE, ms |-> t]

NoPlayer ==
    [exists |-> FALSE, deviceId |-> NoId, created |-> NoTime, lastSeen |-> NoTime,
     gameData |-> EmptyData, tamperingAttempts |-> 0, isBanned |-> FALSE,
     lastSync |-> NoTime, banTimestamp |-> NoTime, tampering |-> <<>>]

NoReq ==
    [kind |-> "none", authorized |-> FALSE, playerId |-> NoId, deviceId |-> NoId,
     initialData |-> EmptyData, hasValues |-> FALSE, gameValues |-> EmptyData,
     powerups |-> {}, clientTimestamp |-> NoTimestamp, severity |-> ""]

NoVerification == [evaluated |-> FALSE, isValid |-> FALSE, reason |-> ""]

\* gameData: player.gameData as read, or updatedData once the values are accepted
NoLoc == [gameData |-> EmptyData, verification |-> NoVerification, serverTimestamp |-> NoTime]

NoResp ==
    [code |-> 0, action |-> "", status |-> "", error |-> "", reason |-> "",
     values |-> EmptyData]

Response(code, action, status, error, reason, values) ==
    [code |-> code, action |-> action, status |-> status, error |-> error,
     reason |-> reason, values |-> values]

-----------------------------------------------------------------------------
(* JavaScript numbers: the arithmetic of verifyGameValues is done in IEEE   *)
(* 754 doubles.  A non-negative number is kept as its binary digits, most    *)
(* significant first, times 2^exp; every operation rounds its exact result   *)
(* to Precision digits, to nearest and ties to even.  Long digit strings are *)
(* added, multiplied and divided LimbWidth digits at a time.                 *)

Precision == 52 + 1
LimbWidth == 2 * 5
LimbBase == 2 ^ LimbWidth
IntWidth == 32 - 1

Front(s) == SubSeq(s, 1, Len(s) - 1)

Zeros(n) == [i \in 1..n |-> 0]

\* the digits without the leading zeros
Strip(bits) ==
    IF \A i \in 1..Len(bits) : bits[i] = 0 THEN <<>>
    ELSE SubSeq(bits, CHOOSE i \in 1..Len(bits) :
                          bits[i] = 1 /\ \A j \in 1..(i - 1) : bits[j] = 0,
                Len(bits))

\* the digits of a natural below 2^31
NatBits(n) == Strip([i \in 1..IntWidth |-> (n \div 2 ^ (IntWidth - i)) % 2])

LimbValue(s) ==
    s[1] * 512 + s[2] * 256 + s[3] * 128 + s[4] * 64 + s[5] * 32
    + s[6] * 16 + s[7] * 8 + s[8] * 4 + s[9] * 2 + s[10]

ToLimbs(bits) ==
    LET padded == Zeros((LimbWidth - (Len(bits) % LimbWidth)) % LimbWidth) \o bits
    IN  [j \in 1..(Len(padded) \div LimbWidth) |->
            LimbValue(SubSeq(padded, (j - 1) * LimbWidth + 1, j * LimbWidth))]

FromLimbs(limbs) ==
    [i \in 1..(Len(limbs) * LimbWidth) |->
        (limbs[(i - 1) \div LimbWidth + 1]
            \div 2 ^ (LimbWidth - 1 - ((i - 1) % LimbWidth))) % 2]

\* a + b + carry, the last limbs aligned
RECURSIVE AddLimbs(_, _, _)
AddLimbs(a, b, carry) ==
    IF a = <<>> /\ b = <<>> THEN <<carry>>
    ELSE LET x == IF a = <<>> THEN 0 ELSE a[Len(a)]
             y == IF b = <<>> THEN 0 ELSE b[Len(b)]
             v == x + y + carry
         IN  Append(AddLimbs(IF a = <<>> THEN a ELSE Front(a),
                             IF b = <<>> THEN b ELSE Front(b), v \div LimbBase),
                    v % LimbBase)

\* a * r + carry, for a natural r below 2^20
RECURSIVE MulLimbs(_, _, _)
MulLimbs(a, r, carry) ==
    IF a = <<>> THEN <<carry \div LimbBase, carry % LimbBase>>
    ELSE LET v == a[Len(a)] * r + carry
         IN  Append(MulLimbs(Front(a), r, v \div LimbBase), v % LimbBase)

\* n limbs of rem/c after the binary point, for rem < c < 2^20, and then one
\* limb that is 1 when a non-zero rest follows
RECURSIVE DivLimbs(_, _, _)
DivLimbs(rem, c, n) ==
    IF n = 0 THEN <<IF rem = 0 THEN 0 ELSE 1>>
    ELSE <<(rem * LimbBase) \div c>> \o DivLimbs((rem * LimbBase) % c, c, n - 1)

AddBits(a, b) == Strip(FromLimbs(AddLimbs(ToLimbs(a), ToLimbs(b), 0)))

RoundToDouble(num) ==
    LET bits == Strip(num.bits)
        n == Len(bits)
    IN  IF n <= Precision THEN [bits |-> bits, exp |-> num.exp]
        ELSE LET kept == SubSeq(bits, 1, Precision)
                 rest == SubSeq(bits, Precision + 1, n)
                 tail == \E i \in 2..Len(rest) : rest[i] = 1
                 up == rest[1] = 1 /\ (tail \/ kept[Precision] = 1)
             IN  [bits |-> IF up THEN AddBits(kept, <<1>>) ELSE kept,
                  exp |-> num.exp + (n - Precision)]

\* the double of a natural below 2^31
Double(n) == [bits |-> NatBits(n), exp |-> 0]

\* d / c for naturals d < 2^31 and 0 < c < 2^20
DoubleDiv(d, c) ==
    LET limbs == (Precision + 1 + Len(NatBits(c))) \div LimbWidth + 1
        frac == FromLimbs(DivLimbs(d % c, c, limbs))
    IN  RoundToDouble([bits |-> NatBits(d \div c) \o frac, exp |-> 0 - Len(frac)])

\* r * x for a natural r below 2^20
DoubleMul(r, x) ==
    RoundToDouble([bits |-> FromLimbs(MulLimbs(ToLimbs(x.bits), r, 0)), exp |-> x.exp])

\* the digits of x at the exponent e <= x.exp
BitsAt(x, e) == x.bits \o Zeros(x.exp - e)

MinExp(x, y) == IF x.exp < y.exp THEN x.exp ELSE y.exp

DoubleAdd(x, y) ==
    RoundToDouble([bits |-> AddBits(BitsAt(x, MinExp(x, y)), BitsAt(y, MinExp(x, y))),
                   exp |-> MinExp(x, y)])

BitsLess(a, b) ==
    \/ Len(a) < Len(b)
    \/ /\ Len(a) = Len(b)
       /\ \E i \in 1..Len(a) : a[i] < b[i] /\ \A j \in 1..(i - 1) : a[j] = b[j]

\* x > y
DoubleGreater(x, y) ==
    BitsLess(Strip(BitsAt(y, MinExp(x, y))), Strip(BitsAt(x, MinExp(x, y))))

-----------------------------------------------------------------------------
(* verifyGameValues *)

Valid == [evaluated |-> TRUE, isValid |-> TRUE, reason |-> ""]
Invalid(reason) == [evaluated |-> TRUE, isValid |-> FALSE, reason |-> reason]

\* newValues.powerups?.includes('health')
HealthPowerup(powerups) == "health" \in powerups

\* x > y + rate * timeDiffMinutes
ExceedsRate(x, y, rate, timeDiffMinutes) ==
    DoubleGreater(Double(x), DoubleAdd(Double(y), DoubleMul(rate, timeDiffMinutes)))

\* a verifier without the health cap
HealthCapNever(gameData, newValues, powerups) == FALSE

HealthCapViolated(gameData, newValues, powerups) ==
    /\ Has(newValues, "health") /\ Has(gameData, "health")
    /\ newValues["health"] > OrDefault(gameData, "maxHealth", DefaultMaxHealth)
    /\ ~HealthPowerup(powerups)

\* a verifier without the regeneration rule
HealthRegenNever(gameData, newValues, powerups, timeDiffMinutes) == FALSE

HealthRegenViolated(gameData, newValues, powerups, timeDiffMinutes) ==
    /\ Has(newValues, "health") /\ Has(gameData, "health")
    /\ newValues["health"] > gameData["health"]
    /\ gameData["health"] < OrDefault(gameData, "maxHealth", DefaultMaxHealth)
    /\ ExceedsRate(newValues["health"], gameData["health"],
                   OrDefault(gameData, "healthRegenRate", DefaultRegenRate),
                   timeDiffMinutes)
    /\ ~HealthPowerup(powerups)

\* a coins rule that refuses every report of coins for which no time has passed
CoinsViolatedWithoutTime(gameData, newValues, timeDiffMinutes) ==
    /\ Has(newValues, "coins") /\ Has(gameData, "coins")
    /\ \/ ExceedsRate(newValues["coins"], gameData["coins"], maxCoinsPerMinute,
                      timeDiffMinutes)
       \/ timeDiffMinutes = DoubleDiv(0, MsPerMinute)

CoinsViolated(gameData, newValues, timeDiffMinutes) ==
    /\ Has(newValues, "coins") /\ Has(gameData, "coins")
    /\ ExceedsRate(newValues["coins"], gameData["coins"], maxCoinsPerMinute,
                   timeDiffMinutes)

XpViolated(gameData, newValues, timeDiffMinutes) ==
    /\ Has(newValues, "xp") /\ Has(gameData, "xp")
    /\ ExceedsRate(newValues["xp"], gameData["xp"], maxXpPerMinute, timeDiffMinutes)

\* a future test that already refuses the tolerated five minutes
TooFarAheadInclusive(clientTime, currentTime) ==
    clientTime >= currentTime + FutureToleranceMs

\* clientTime > new Date(currentTime.getTime() + 5 * 60 * 1000)
TooFarAhead(clientTime, currentTime) == clientTime > currentTime + FutureToleranceMs

\* a first-sync test that forgets the record with an empty gameData object
NoHistoryAbsentOnly(player) == ~Has(player, "gameData")

\* !player.gameData || Object.keys(player.gameData).length === 0
NoHistory(player) == ~Has(player, "gameData") \/ DOMAIN player.gameData = {}

verifyGameValues(player, newValues, powerups, clientTimestamp, currentTime) ==
    IF NoHistory(player) THEN Valid
    ELSE IF ~clientTimestamp.parsable THEN Invalid("Invalid client timestamp")
    ELSE LET clientTime == clientTimestamp.ms
             lastSyncTime == IF player.lastSync # NoTime THEN player.lastSync
                             ELSE player.created
             timeDiffMinutes == DoubleDiv(Max0(clientTime - lastSyncTime), MsPerMinute)
             gameData == player.gameData
         IN  IF TooFarAhead(clientTime, currentTime)
                 THEN Invalid("Client timestamp is too far in the future")
             ELSE IF HealthCapViolated(gameData, newValues, powerups)
                 THEN Invalid("Health exceeds maximum allowed value")
             ELSE IF HealthRegenViolated(gameData, newValues, powerups, timeDiffMinutes)
                 THEN Invalid("Health increased too fast")
             ELSE IF CoinsViolated(gameData, newValues, timeDiffMinutes)
                 THEN Invalid("Coins increased too fast")
             ELSE IF XpViolated(gameData, newValues, timeDiffMinutes)
                 THEN Invalid("XP increased too fast")
             ELSE Valid

-----------------------------------------------------------------------------
(* The requests the model sends *)

ScenarioData == [health |-> 100, maxHealth |-> 100, coins |-> 100]

InitialDatas == {EmptyData, ScenarioData}

\* gameValues and clientTimestamp of a sync received at time t
SyncBodies(t) ==
    {[gameValues |-> [coins |-> 100], clientTimestamp |-> At(t)],
     [gameValues |-> [coins |-> 5100], clientTimestamp |-> At(t)],
     [gameValues |-> [health |-> 50], clientTimestamp |-> At(t)],
     [gameValues |-> [coins |-> 100], clientTimestamp |-> NoTimestamp]}

\* playerId and severity of a report: a registered, an unknown and no player
ReportBodies ==
    {[playerId |-> "p1", severity |-> "critical"],
     [playerId |-> "p1", severity |-> "low"],
     [playerId |-> "p1", severity |-> "warning"],
     [playerId |-> "p0", severity |-> "critical"],
     [playerId |-> NoId, severity |-> "low"]}

-----------------------------------------------------------------------------
(* Request slots *)

Idle(r) == pc[r] \in {"idle", "done"}

AllQuiet == \A r \in Slots : Idle(r)

InFlight(labels) == Cardinality({r \in Slots : pc[r] \in labels})

\* A request is received in the lowest free slot.
CanStart(r) ==
    /\ r <= load.clients
    /\ Idle(r)
    /\ \A q \in Slots : q < r => ~Idle(q)

\* Room left in the append-only collections (the bounds of the model).
RoomForReport == Len(tamperingLogs) + InFlight({"tlogInsert"}) < load.reports
RoomForSync == Len(syncLogs) + InFlight({"syncWrite", "syncLog"}) < load.syncs

\* The slots once slot r has taken a new request: the responses of the
\* requests that were over are no longer looked at.
PcOnStart(r, label) ==
    [q \in Slots |-> IF q = r THEN label
                     ELSE IF pc[q] = "done" THEN "idle" ELSE pc[q]]
RespOnStart(r, response) ==
    [q \in Slots |-> IF q = r THEN response
                     ELSE IF pc[q] = "done" THEN NoResp ELSE resp[q]]

\* What the handler still reads of the request once the body is used up.
Trimmed(request) == [NoReq EXCEPT !.kind = request.kind, !.authorized = request.authorized,
                                  !.playerId = request.playerId]

(* The scenario monitor.  run[p] = 0: p was registered with game data and   *)
(* nothing else has happened since; k in 1..3: k value-rejected syncs of p   *)
(* followed, one at a time and nothing between; 4: one more sync of p        *)
(* followed; -1: anything else.                                              *)
Off == 0 - 1

RunOnStart(request, accepted) ==
    [p \in PlayerIds |->
        IF /\ accepted /\ request.kind = "sync" /\ request.playerId = p
           /\ run[p] \in 0..3 /\ AllQuiet
        THEN run[p] ELSE Off]

RunOnFinish(r, request, verification, response) ==
    [p \in PlayerIds |->
        IF request.playerId # p THEN run[p]
        ELSE IF request.kind = "register"
            THEN IF /\ response.code = 201 /\ request.initialData # EmptyData
                    /\ \A q \in Slots \ {r} : Idle(q)
                 THEN 0 ELSE Off
        ELSE IF request.kind = "sync" /\ run[p] \in 0..2
            THEN IF verification.evaluated /\ ~verification.isValid
                 THEN run[p] + 1 ELSE Off
        ELSE IF request.kind = "sync" /\ run[p] = 3 THEN 4
        ELSE Off]

\* The request is answered by the handler's first synchronous part.
Answer(r, request, response) ==
    /\ pc' = PcOnStart(r, "done")
    /\ resp' = RespOnStart(r, response)
    /\ run' = RunOnStart(request, FALSE)
    /\ UNCHANGED <<req, loc>>

\* The request is accepted and the handler waits for the store at `label`.
Accept(r, request, response, label) ==
    /\ pc' = PcOnStart(r, label)
    /\ resp' = RespOnStart(r, response)
    /\ req' = [req EXCEPT ![r] = request]
    /\ loc' = [loc EXCEPT ![r] = NoLoc]
    /\ run' = RunOnStart(request, TRUE)

\* The request is over: the response is out and the slot keeps only it.
Finish(r, verification, response) ==
    /\ pc' = [pc EXCEPT ![r] = "done"]
    /\ resp' = [resp EXCEPT ![r] = response]
    /\ req' = [req EXCEPT ![r] = NoReq]
    /\ loc' = [loc EXCEPT ![r] = NoLoc]
    /\ run' = RunOnFinish(r, req[r], verification, response)

\* The handler goes on at `label` with these locals and this rest of the request.
Continue(r, request, locals, label) ==
    /\ pc' = [pc EXCEPT ![r] = label]
    /\ req' = [req EXCEPT ![r] = request]
    /\ loc' = [loc EXCEPT ![r] = locals]
    /\ UNCHANGED <<resp, run>>

-----------------------------------------------------------------------------
(* connectToDatabase, the clock *)

Connect ==
    /\ ~db
    /\ db' = TRUE
    /\ UNCHANGED <<setupVars, now, storeVars, pc, req, loc, resp, violations, missed, run, callVars, clientVars>>

Tick ==
    /\ now + TickMs <= load.ticks * TickMs
    /\ now' = now + TickMs
    /\ UNCHANGED <<setupVars, db, storeVars, pc, req, loc, resp, violations, missed, run, callVars, clientVars>>

-----------------------------------------------------------------------------
(* validateApiKey: a missing or wrong key is answered 401 *)

\* a gate that files the refused request in the tampering log
UnauthorizedLogged(r) ==
    /\ CanStart(r)
    /\ Len(tamperingLogs) < load.reports
    /\ \E kind \in {"report", "register", "sync"} :
          Answer(r, [NoReq EXCEPT !.kind = kind],
                 Response(401, "", "", "Unauthorized access", "", EmptyData))
    /\ tamperingLogs' = Append(tamperingLogs, [severity |-> "unknown", playerId |-> NoId])
    /\ UNCHANGED <<setupVars, db, now, players, syncLogs, violations, missed, callVars, clientVars>>

Unauthorized(r) ==
    /\ CanStart(r)
    /\ \E kind \in {"report", "register", "sync"} :
          Answer(r, [NoReq EXCEPT !.kind = kind],
                 Response(401, "", "", "Unauthorized access", "", EmptyData))
    /\ UNCHANGED <<setupVars, db, now, storeVars, violations, missed, callVars, clientVars>>

-----------------------------------------------------------------------------
(* POST /api/log-tampering *)

\* a handler that stores the severity as it was reported
SanitizeNothing(severity) == severity

\* ['low', 'medium', 'high', 'critical'].includes(severity) ? severity : 'unknown'
Sanitize(severity) ==
    IF severity \in {"low", "medium", "high", "critical"} THEN severity ELSE "unknown"

\* a handler that answers every report with the warning
TamperingResponseAlwaysWarn(severity) ==
    Response(200, "warn", "", "", "", EmptyData)

TamperingResponse(severity) ==
    IF severity = "critical"
        THEN Response(403, "ban", "", "", "", EmptyData)
        ELSE Response(200, "warn", "", "", "", EmptyData)

\* the entries pushed to a record's tampering array, kept by where they come from
ReportEntry == [source |-> "report"]
SyncEntry == [source |-> "sync"]

\* an update that counts an entry only the first time it is seen
IncTamperingOnce(doc, entry) ==
    IF \E i \in 1..Len(doc.tampering) : doc.tampering[i] = entry
        THEN doc
        ELSE [doc EXCEPT !.tamperingAttempts = @ + 1,
                         !.tampering = Append(@, entry)]

\* an update that counts the violation and keeps no entry of it
IncTamperingNoHistory(doc, entry) == [doc EXCEPT !.tamperingAttempts = @ + 1]

\* updateOne({playerId}, {$inc: {tamperingAttempts: 1}, $push: {tampering: entry}})
IncTampering(doc, entry) ==
    [doc EXCEPT !.tamperingAttempts = @ + 1,
                !.tampering = Append(@, entry)]

ReportRequest(id, sev) ==
    [NoReq EXCEPT !.kind = "report", !.authorized = TRUE, !.playerId = id,
                  !.severity = sev]

\* The handler itself: it answers at once; the store work runs behind it.
LogTampering(r) ==
    /\ CanStart(r)
    /\ \E body \in ReportBodies :
          LET id == body.playerId
              request == ReportRequest(id, body.severity)
              response == TamperingResponse(Sanitize(body.severity))
          IN  IF db
                 THEN /\ RoomForReport
                      /\ Accept(r, request, response, "tlogInsert")
                      /\ violations' = IF id # NoId
                                          THEN [violations EXCEPT ![id] = @ + 1]
                                          ELSE violations
                 ELSE /\ Answer(r, request, response)
                      /\ UNCHANGED violations
    /\ UNCHANGED <<setupVars, db, now, storeVars, missed, callVars, clientVars>>

\* db.collection('tampering_logs').insertOne(sanitizedData)
TlogInsert(r) ==
    /\ pc[r] = "tlogInsert"
    /\ tamperingLogs' = Append(tamperingLogs,
                               [severity |-> Sanitize(req[r].severity),
                                playerId |-> req[r].playerId])
    /\ IF req[r].playerId # NoId
          THEN Continue(r, Trimmed(req[r]), loc[r], "tlogInc")
          ELSE Finish(r, NoVerification, resp[r])
    /\ UNCHANGED <<setupVars, db, now, players, syncLogs, violations, missed, callVars, clientVars>>

\* .then: the player's counter; no record of that id, nothing is updated
TlogInc(r) ==
    /\ pc[r] = "tlogInc"
    /\ LET id == req[r].playerId IN
          IF players[id].exists
             THEN /\ players' = [players EXCEPT ![id] = IncTampering(@, ReportEntry)]
                  /\ UNCHANGED missed
             ELSE /\ missed' = [missed EXCEPT ![id] = @ + 1]
                  /\ UNCHANGED players
    /\ Finish(r, NoVerification, resp[r])
    /\ UNCHANGED <<setupVars, db, now, tamperingLogs, syncLogs, violations, callVars, clientVars>>

-----------------------------------------------------------------------------
(* POST /api/register-player *)

NewPlayer(deviceId, initialData, t) ==
    [exists |-> TRUE, deviceId |-> deviceId, created |-> t, lastSeen |-> t,
     gameData |-> initialData, tamperingAttempts |-> 0, isBanned |-> FALSE,
     lastSync |-> NoTime, banTimestamp |-> NoTime, tampering |-> <<>>]

\* an update that replaces the whole record (an upsert of newPlayer)
TouchPlayerReplacing(doc, deviceId, t) == NewPlayer(deviceId, doc.gameData, t)

\* updateOne({playerId}, {$set: {lastSeen, deviceId}})
TouchPlayer(doc, deviceId, t) == [doc EXCEPT !.lastSeen = t, !.deviceId = deviceId]

RegisterRequest(id, dev, init) ==
    [NoReq EXCEPT !.kind = "register", !.authorized = TRUE, !.playerId = id,
                  !.deviceId = dev, !.initialData = init]

\* a gate that lets the request through as accepted
UnavailableAccepted == Response(200, "", "valid", "", "", EmptyData)

Unavailable == Response(503, "", "", "Database service unavailable", "", EmptyData)

\* a string of 101 characters, one more than the handlers accept
LongId ==
    "aaaaaaaaaaaaaaaaaaaaaaaaaaaaaaaaaaaaaaaaaaaaaaaaaaaaaaaaaaaaaaaaaaaaaaaaaaaaaaaaaaaaaaaaaaaaaaaaaaaaa"

\* a test that forgets the length
InvalidFieldAnyLength(field) == field = NoId

\* !playerId || typeof playerId !== 'string' || playerId.length > 100
InvalidField(field) == field = NoId \/ Len(field) > MaxFieldLength

Register(r) ==
    /\ CanStart(r)
    /\ \E id \in PlayerIds \cup {NoId, LongId}, dev \in {"d1", NoId, LongId},
          init \in InitialDatas :
          LET request == RegisterRequest(id, dev, init) IN
          IF ~db
             THEN Answer(r, request, Unavailable)
          ELSE IF InvalidField(id)
             THEN Answer(r, request,
                         Response(400, "", "", "Invalid player ID", "", EmptyData))
          ELSE IF InvalidField(dev)
             THEN Answer(r, request,
                         Response(400, "", "", "Invalid device ID", "", EmptyData))
          ELSE Accept(r, request, NoResp, "regFind")
    /\ UNCHANGED <<setupVars, db, now, storeVars, violations, missed, callVars, clientVars>>

\* existingPlayer = await findOne({playerId})
RegFind(r) ==
    /\ pc[r] = "regFind"
    /\ IF players[req[r].playerId].exists
          THEN Continue(r, [req[r] EXCEPT !.initialData = EmptyData],
                        [NoLoc EXCEPT !.serverTimestamp = now], "regUpdate")
          ELSE Continue(r, req[r], [NoLoc EXCEPT !.serverTimestamp = now], "regInsert")
    /\ UNCHANGED <<setupVars, db, now, storeVars, violations, missed, callVars, clientVars>>

RegUpdate(r) ==
    /\ pc[r] = "regUpdate"
    /\ players' = [players EXCEPT ![req[r].playerId] =
                      TouchPlayer(@, req[r].deviceId, loc[r].serverTimestamp)]
    /\ Finish(r, NoVerification, Response(200, "", "", "", "", EmptyData))
    /\ UNCHANGED <<setupVars, db, now, tamperingLogs, syncLogs, violations, missed, callVars, clientVars>>

\* insertOne(newPlayer); the unique index on playerId refuses a second record
RegInsert(r) ==
    /\ pc[r] = "regInsert"
    /\ IF players[req[r].playerId].exists
          THEN /\ Finish(r, NoVerification,
                         Response(500, "", "", "Failed to register player", "",
                                  EmptyData))
               /\ UNCHANGED players
          ELSE /\ players' = [players EXCEPT ![req[r].playerId] =
                     NewPlayer(req[r].deviceId, req[r].initialData,
                               loc[r].serverTimestamp)]
               /\ Finish(r, NoVerification, Response(201, "", "", "", "", EmptyData))
    /\ UNCHANGED <<setupVars, db, now, tamperingLogs, syncLogs, violations, missed, callVars, clientVars>>

-----------------------------------------------------------------------------
(* POST /api/sync-game-values *)

\* a handler that never looks at the suspension
SuspendedNever(player) == FALSE

\* if (player.isBanned)
Suspended(player) == player.isBanned

\* a threshold test that is off by one
ShouldBanStrict(updatedPlayer) ==
    updatedPlayer.tamperingAttempts > maxTamperingAttempts

\* if (updatedPlayer.tamperingAttempts >= config.protection.maxTamperingAttempts)
ShouldBan(updatedPlayer) ==
    updatedPlayer.tamperingAttempts >= maxTamperingAttempts

\* { ...player.gameData, ...gameValues, _lastUpdated: serverTimestamp }
UpdatedData(gameData, gameValues, t) ==
    Spread(Spread(gameData, gameValues), [k \in {"_lastUpdated"} |-> t])

\* updateOne({playerId}, {$set: {isBanned: true, banTimestamp}})
BanPlayer(doc, t) == [doc EXCEPT !.isBanned = TRUE, !.banTimestamp = t]

\* updateOne({playerId}, {$set: {gameData, lastSync}})
StoreValues(doc, data, t) == [doc EXCEPT !.gameData = data, !.lastSync = t]

SyncRequest(id, has, body) ==
    [NoReq EXCEPT !.kind = "sync", !.authorized = TRUE, !.playerId = id,
                  !.hasValues = has,
                  !.gameValues = IF has THEN body.gameValues ELSE EmptyData,
                  !.clientTimestamp = body.clientTimestamp]

\* the handler up to its first await, for a request with one of these bodies
Sync(r, bodies) ==
    /\ CanStart(r)
    /\ \E id \in Ids \cup {NoId}, has \in BOOLEAN, body \in bodies :
          LET request == SyncRequest(id, has, body) IN
          IF ~db
             THEN Answer(r, request, Unavailable)
          ELSE IF id = NoId
             THEN Answer(r, request,
                         Response(400, "", "", "Invalid player ID", "", EmptyData))
          ELSE IF ~has
             THEN Answer(r, request,
                         Response(400, "", "", "Invalid game values", "", EmptyData))
          ELSE /\ RoomForSync
               /\ Accept(r, request, NoResp, "syncRead")
    /\ UNCHANGED <<setupVars, db, now, storeVars, violations, missed, callVars, clientVars>>

\* player = await findOne({playerId}), then everything up to the next await
SyncRead(r) ==
    /\ pc[r] = "syncRead"
    /\ LET id == req[r].playerId
           player == players[id]
           result == verifyGameValues(player, req[r].gameValues, req[r].powerups,
                                      req[r].clientTimestamp, now)
       IN  IF ~player.exists
              THEN /\ Finish(r, NoVerification,
                             Response(404, "", "", "Player not found", "", EmptyData))
                   /\ UNCHANGED violations
           ELSE IF Suspended(player)
              THEN /\ Finish(r, NoVerification,
                             Response(403, "", "", "Account suspended", "", EmptyData))
                   /\ UNCHANGED violations
           ELSE IF ~result.isValid
              THEN /\ Continue(r, Trimmed(req[r]),
                               [gameData |-> player.gameData, verification |-> result,
                                serverTimestamp |-> now], "syncInc")
                   /\ violations' = [violations EXCEPT ![id] = @ + 1]
           ELSE /\ Continue(r, Trimmed(req[r]),
                            [gameData |-> UpdatedData(player.gameData,
                                                      req[r].gameValues, now),
                             verification |-> result, serverTimestamp |-> now],
                            "syncWrite")
                /\ UNCHANGED violations
    /\ UNCHANGED <<setupVars, db, now, storeVars, missed, callVars, clientVars>>

\* the update of a rejected sync as it would be if it also set lastSync
SyncIncTouchingSync(r) ==
    /\ pc[r] = "syncInc"
    /\ players' = [players EXCEPT ![req[r].playerId] =
                      [IncTampering(@, SyncEntry) EXCEPT
                          !.lastSync = loc[r].serverTimestamp]]
    /\ Continue(r, req[r], loc[r], "syncReread")
    /\ UNCHANGED <<setupVars, db, now, tamperingLogs, syncLogs, violations, missed, callVars, clientVars>>

\* the $inc/$push update of a rejected sync
SyncInc(r) ==
    /\ pc[r] = "syncInc"
    /\ players' = [players EXCEPT ![req[r].playerId] = IncTampering(@, SyncEntry)]
    /\ Continue(r, req[r], loc[r], "syncReread")
    /\ UNCHANGED <<setupVars, db, now, tamperingLogs, syncLogs, violations, missed, callVars, clientVars>>

\* updatedPlayer = await findOne({playerId})
SyncReread(r) ==
    /\ pc[r] = "syncReread"
    /\ IF ShouldBan(players[req[r].playerId])
          THEN Continue(r, req[r], loc[r], "syncBan")
          ELSE Finish(r, loc[r].verification,
                      Response(200, "", "invalid", "", loc[r].verification.reason,
                               loc[r].gameData))
    /\ UNCHANGED <<setupVars, db, now, storeVars, violations, missed, callVars, clientVars>>

SyncBan(r) ==
    /\ pc[r] = "syncBan"
    /\ players' = [players EXCEPT ![req[r].playerId] =
                      BanPlayer(@, loc[r].serverTimestamp)]
    /\ Finish(r, loc[r].verification,
              Response(403, "ban", "invalid", "", "", EmptyData))
    /\ UNCHANGED <<setupVars, db, now, tamperingLogs, syncLogs, violations, missed, callVars, clientVars>>

\* the $set update of an accepted sync
SyncWrite(r) ==
    /\ pc[r] = "syncWrite"
    /\ players' = [players EXCEPT ![req[r].playerId] =
                      StoreValues(@, loc[r].gameData, loc[r].serverTimestamp)]
    /\ Continue(r, req[r], loc[r], "syncLog")
    /\ UNCHANGED <<setupVars, db, now, tamperingLogs, syncLogs, violations, missed, callVars, clientVars>>

\* sync_logs.insertOne, then the 200
SyncLog(r) ==
    /\ pc[r] = "syncLog"
    /\ syncLogs' = Append(syncLogs, req[r].playerId)
    /\ Finish(r, loc[r].verification,
              Response(200, "", "valid", "", "", loc[r].gameData))
    /\ UNCHANGED <<setupVars, db, now, players, tamperingLogs, violations, missed, callVars, clientVars>>

-----------------------------------------------------------------------------
(* ------------------------------------------------------------------ *)
(* GameValue, the protected value of the client library               *)
(* ------------------------------------------------------------------ *)

\* JavaScript values: primitives, and objects with one property hp that
\* live on the heap and are passed by reference
MaxObjects == 6
MaxNumber == 100
Addresses == 1..MaxObjects
Numbers == {0, MaxNumber}

Num(n) == [tag |-> "number", n |-> n]
NaN == [tag |-> "NaN", n |-> 0]
Undefined == [tag |-> "undefined", n |-> 0]
Null == [tag |-> "null", n |-> 0]
Ref(a) == [tag |-> "object", n |-> a]
\* what a heap cell holds besides a primitive: no property at all, a
\* reference to the object itself, or nothing (the cell is not in use)
Absent == [tag |-> "absent", n |-> 0]
Self == [tag |-> "self", n |-> 0]
Free == [tag |-> "free", n |-> 0]

\* what a caller passes: a number or undefined, or an object whose property
\* is a number, NaN, undefined or the object itself
Primitives == {Num(n) : n \in Numbers} \cup {Undefined}
Members == Primitives \cup {NaN, Self}
Arguments ==
    {[object |-> FALSE, content |-> p] : p \in Primitives}
        \cup {[object |-> TRUE, content |-> m] : m \in Members}

EmptyHeap == [a \in Addresses |-> Free]
FreshAddress(h) == CHOOSE a \in Addresses :
    h[a] = Free /\ \A b \in 1..(a - 1) : h[b] # Free
\* the value the caller holds: a primitive, or a new object of its own
Caller(arg, h) ==
    LET a == FreshAddress(h)
    IN IF arg.object
       THEN [value |-> Ref(a), heap |-> [h EXCEPT ![a] = arg.content]]
       ELSE [value |-> arg.content, heap |-> h]

\* JSON text is a sequence of characters
Range(s) == {s[i] : i \in DOMAIN s}
DigitChars == <<"0", "1", "2", "3", "4", "5", "6", "7", "8", "9">>
HexChars == DigitChars \o <<"a", "b", "c", "d", "e", "f">>
DigitOf(c) == (CHOOSE d \in 1..Len(DigitChars) : DigitChars[d] = c) - 1
Punctuation == {"\"", "-", ":", "h", "l", "n", "p", "u", "x", "{", "}"}
charCodeAt ==
    [c \in Range(DigitChars) \cup Punctuation |->
        CASE c \in Range(DigitChars) -> 48 + DigitOf(c)
          [] c = "\"" -> 34
          [] c = "-" -> 45
          [] c = ":" -> 58
          [] c = "h" -> 104
          [] c = "l" -> 108
          [] c = "n" -> 110
          [] c = "p" -> 112
          [] c = "u" -> 117
          [] c = "x" -> 120
          [] c = "{" -> 123
          [] c = "}" -> 125]

RECURSIVE DecimalText(_)
DecimalText(n) ==
    IF n < 10 THEN <<DigitChars[n + 1]>>
    ELSE DecimalText(n \div 10) \o <<DigitChars[(n % 10) + 1]>>
NumberText(n) == IF n < 0 THEN <<"-">> \o DecimalText(0 - n) ELSE DecimalText(n)
NullText == <<"n", "u", "l", "l">>
HpText == <<"\"", "h", "p", "\"", ":">>

JsonText(t) == [kind |-> "text", text |-> t]
JsonUndefined == [kind |-> "undefined", text |-> <<>>]
JsonThrows == [kind |-> "throws", text |-> <<>>]

\* JSON.stringify: NaN becomes null, an undefined property is left out,
\* undefined itself has no text, a cyclic object throws
PrimitiveText(p) == IF p.tag = "number" THEN NumberText(p.n) ELSE NullText
ObjectText(member) ==
    IF member.tag \in {"undefined", "absent"} THEN <<"{", "}">>
    ELSE <<"{">> \o HpText \o PrimitiveText(member) \o <<"}">>
stringify(value, h) ==
    CASE value.tag = "undefined" -> JsonUndefined
      [] value.tag = "object" ->
            IF h[value.n].tag = "self" THEN JsonThrows
            ELSE JsonText(ObjectText(h[value.n]))
      [] OTHER -> JsonText(PrimitiveText(value))

\* JSON.parse of the texts above
RECURSIVE ParseDecimal(_)
ParseDecimal(t) ==
    IF Len(t) = 1 THEN DigitOf(t[1])
    ELSE 10 * ParseDecimal(SubSeq(t, 1, Len(t) - 1)) + DigitOf(t[Len(t)])
ParsePrimitive(t) ==
    CASE t = NullText -> Null
      [] t[1] = "-" -> Num(0 - ParseDecimal(Tail(t)))
      [] OTHER -> Num(ParseDecimal(t))
parse(t) ==
    IF t[1] = "{"
    THEN [object |-> TRUE,
          content |-> IF Len(t) = 2 THEN Absent
                      ELSE ParsePrimitive(SubSeq(t, 2 + Len(HpText), Len(t) - 1))]
    ELSE [object |-> FALSE, content |-> ParsePrimitive(t)]

\* the rolling hash, kept in 32 bits as two halves of 16 bits
HalfBase == 2 ^ 16
HashStep(hash, char) ==
    LET low == hash[2] * 31 + char
        high == hash[1] * 31 + low \div HalfBase
    IN <<high % HalfBase, low % HalfBase>>
RECURSIVE HashOf(_, _)
\* (each step works on values already computed)
HashOf(hash, t) ==
    IF t = <<>> THEN hash
    ELSE CHOOSE next \in {HashOf(HashStep(h, Head(s)), Tail(s)) : h \in {hash}, s \in {t}} : TRUE
\* Math.abs of the signed reading
Magnitude(hash) ==
    IF hash[1] < HalfBase \div 2 THEN hash
    ELSE <<HalfBase - hash[1] - (IF hash[2] = 0 THEN 0 ELSE 1),
           (HalfBase - hash[2]) % HalfBase>>
RECURSIVE HexText(_)
HexText(n) ==
    IF n < 16 THEN <<HexChars[n + 1]>>
    ELSE HexText(n \div 16) \o <<HexChars[(n % 16) + 1]>>
HexPadded(n) == [i \in 1..(4 - Len(HexText(n))) |-> "0"] \o HexText(n)
\* toString(16)
HashText(hash) ==
    IF hash[1] = 0 THEN HexText(hash[2])
    ELSE HexText(hash[1]) \o HexPadded(hash[2])

Thrown == [threw |-> TRUE, text |-> <<>>]
\* reading .length of a text that is not there throws
calculateChecksum(value, h) ==
    LET valueString == stringify(value, h)
    IN IF valueString.kind = "text"
       THEN [threw |-> FALSE,
             text |-> HashText(Magnitude(HashOf(<<0, 0>>,
                          [i \in 1..Len(valueString.text) |->
                              charCodeAt[valueString.text[i]]])))]
       ELSE Thrown

\* primitives are returned as they are; an object is written as JSON and
\* read back into a new object, and returned itself when that fails
deepClone(value, h) ==
    LET json == stringify(value, h)
        a == FreshAddress(h)
    IN IF value.tag # "object" THEN [value |-> value, heap |-> h]
       ELSE IF json.kind # "text" THEN [value |-> value, heap |-> h]
       ELSE [value |-> Ref(a), heap |-> [h EXCEPT ![a] = parse(json.text).content]]

\* the hook GuardianShield.protectValue installs, or none
Callbacks == {"none", "shield"}
verificationCallback(callback) == TRUE

NoGameValue == [key |-> "", originalValue |-> Undefined, currentValue |-> Undefined,
                checksums |-> <<>>, verificationCallback |-> "none"]
NoResult == [op |-> "none", threw |-> FALSE, ok |-> FALSE]
Returned(op, ok) == [op |-> op, threw |-> FALSE, ok |-> ok]
Threw(op) == [op |-> op, threw |-> TRUE, ok |-> FALSE]

\* the server's specifications have no container
ValueUnused ==
    /\ gameValue = NoGameValue
    /\ heap = EmptyHeap
    /\ passed = Undefined
    /\ got = Undefined
    /\ call = NoResult
    /\ given = Undefined
    /\ fresh = FALSE
    /\ tampered = FALSE

\* A time in milliseconds since 1970 is kept in two parts, <<high, low>> for
\* high * 100000 + low with low under 100000 in size, so that the times of
\* Date.now() are numbers of the model.
TimeZero == <<0, 0>>

\* lastScanTime: number = 0; memoryChecksums = new Map()
NoScanner == [lastScanTime |-> TimeZero, memoryChecksums |-> <<>>]

\* GuardianShield as constructed, with its MemoryProtector: serverLogEndpoint
\* stands for "an endpoint is configured", requests counts the reports sent
\* and not yet answered; maxTamperingAttempts and countermeasures are the
\* limit of its MemoryProtector and the countermeasures it applied last;
\* clock is what Date.now() has advanced since the page
\* was loaded, timers the number of timers set by setInterval and not
\* cleared, due the clock at which the timer fires next, and scanner the
\* fields of its MemoryScanner
NoShield == [isRunning |-> FALSE, intervalId |-> FALSE, isVerifying |-> FALSE,
             detectedTamperingAttempts |-> 0, serverLogEndpoint |-> FALSE,
             requests |-> 0, maxTamperingAttempts |-> Num(3),
             countermeasures |-> "none", clock |-> 0, timers |-> 0, due |-> 0,
             scanner |-> NoScanner]

\* no call of the shield is running and none has run
NoCycle == [at |-> "idle", by |-> "none", criticalIssueDetected |-> FALSE,
            valuesTampered |-> FALSE, ran |-> <<>>, events |-> <<>>,
            hooks |-> <<>>, last |-> NoResult]

\* GameGuardianShield as constructed: posted counts the messages of
\* integrityChecker in the main looper's queue, queue holds the tasks of the
\* single-thread executor and running the task its thread is executing
\* connected stands for "serverEndpoint, apiKey and playerId are set";
\* gameValues is the value registered under the game's one key, and
\* protectedValue the value behind the game's one ProtectedValue
NoAndroid == [isProtectionActive |-> FALSE, posted |-> 0, queue |-> <<>>,
              running |-> "none", currentViolations |-> 0, connected |-> FALSE,
              key |-> <<>>, gameValues |-> Absent, protectedValue |-> Absent,
              answer |-> [status |-> "none", value |-> Absent]]

\* the server's and the container's specifications have no guardian
GuardUnused ==
    /\ shield = NoShield
    /\ cycle = NoCycle
    /\ android = NoAndroid

-----------------------------------------------------------------------------
(* The server *)

NoCall == [player |-> NoPlayer, newValues |-> EmptyData, powerups |-> {},
           clientTimestamp |-> NoTimestamp, currentTime |-> 0]

\* one client at a time under a running clock, or concurrent clients at
\* one instant
Loads ==
    {[clients |-> 1, reports |-> MaxReports, syncs |-> MaxSyncs, ticks |-> MaxTicks],
     [clients |-> Cardinality(Slots), reports |-> MaxReports, syncs |-> MaxSyncs,
      ticks |-> 0]}

Init ==
    /\ load \in Loads
    /\ db = FALSE
    /\ now = 0
    /\ players = [id \in Ids |-> NoPlayer]
    /\ tamperingLogs = <<>>
    /\ syncLogs = <<>>
    /\ pc = [r \in Slots |-> "idle"]
    /\ req = [r \in Slots |-> NoReq]
    /\ loc = [r \in Slots |-> NoLoc]
    /\ resp = [r \in Slots |-> NoResp]
    /\ violations = [id \in Ids |-> 0]
    /\ missed = [id \in Ids |-> 0]
    /\ run = [id \in PlayerIds |-> Off]
    /\ base = NoPlayer
    /\ sent = [r \in Slots |-> NoReq]
    /\ vin = NoCall
    /\ vout = NoVerification
    /\ ValueUnused
    /\ GuardUnused

Next ==
    \/ Connect
    \/ Tick
    \/ \E r \in Slots : Unauthorized(r)
    \/ \E r \in Slots : LogTampering(r)
    \/ \E r \in Slots : TlogInsert(r)
    \/ \E r \in Slots : TlogInc(r)
    \/ \E r \in Slots : Register(r)
    \/ \E r \in Slots : RegFind(r)
    \/ \E r \in Slots : RegUpdate(r)
    \/ \E r \in Slots : RegInsert(r)
    \/ \E r \in Slots : Sync(r, SyncBodies(now))
    \/ \E r \in Slots : SyncRead(r)
    \/ \E r \in Slots : SyncInc(r)
    \/ \E r \in Slots : SyncReread(r)
    \/ \E r \in Slots : SyncBan(r)
    \/ \E r \in Slots : SyncWrite(r)
    \/ \E r \in Slots : SyncLog(r)

Spec == Init /\ [][Next]_vars

-----------------------------------------------------------------------------
(* Two requests for one registered player, both received before either is   *)
(* served: every interleaving of their store operations.                     *)

\* the record after k value-rejected syncs of a player registered with game data
BaseAfter(k) ==
    [NewPlayer("d1", ScenarioData, 0) EXCEPT
        !.tamperingAttempts = k,
        !.tampering = [i \in 1..k |-> SyncEntry],
        !.isBanned = (k >= maxTamperingAttempts),
        !.banTimestamp = IF k >= maxTamperingAttempts THEN 0 ELSE NoTime]

RaceBases == {BaseAfter(k) : k \in 0..maxTamperingAttempts}

RaceRequests ==
    {SyncRequest(id, TRUE, body) : id \in PlayerIds, body \in SyncBodies(0)}
    \cup {ReportRequest(b.playerId, b.severity) :
             b \in {x \in ReportBodies : x.playerId \in PlayerIds}}

RaceLoad == [clients |-> Cardinality(Slots), reports |-> Cardinality(Slots),
             syncs |-> Cardinality(Slots), ticks |-> 0]

InitRace ==
    /\ load = RaceLoad
    /\ db = TRUE
    /\ now = 0
    /\ base \in RaceBases
    /\ sent \in [Slots -> RaceRequests]
    /\ players = [id \in Ids |-> IF id \in PlayerIds THEN base ELSE NoPlayer]
    /\ tamperingLogs = <<>>
    /\ syncLogs = <<>>
    /\ pc = [r \in Slots |-> IF sent[r].kind = "sync" THEN "syncRead" ELSE "tlogInsert"]
    /\ req = sent
    /\ loc = [r \in Slots |-> NoLoc]
    /\ resp = [r \in Slots |-> IF sent[r].kind = "sync" THEN NoResp
                               ELSE TamperingResponse(Sanitize(sent[r].severity))]
    /\ violations = [id \in Ids |->
                       Cardinality({r \in Slots : /\ sent[r].kind = "report"
                                                  /\ sent[r].playerId = id})]
    /\ missed = [id \in Ids |-> 0]
    /\ run = [id \in PlayerIds |-> Off]
    /\ vin = NoCall
    /\ vout = NoVerification
    /\ ValueUnused
    /\ GuardUnused

NextRace ==
    \/ \E r \in Slots : TlogInsert(r)
    \/ \E r \in Slots : TlogInc(r)
    \/ \E r \in Slots : SyncRead(r)
    \/ \E r \in Slots : SyncInc(r)
    \/ \E r \in Slots : SyncReread(r)
    \/ \E r \in Slots : SyncBan(r)
    \/ \E r \in Slots : SyncWrite(r)
    \/ \E r \in Slots : SyncLog(r)

SpecRace == InitRace /\ [][NextRace]_vars

-----------------------------------------------------------------------------
(* One registered player whose client claims coins with a clientTimestamp  *)
(* five minutes ahead of the server's clock, one sync at a time.           *)

MaxGains == 3       \* accepted syncs
GainTicks == 2      \* half minutes on the server's clock

\* gameValues and clientTimestamp of such a sync received at time t
GainBodies(t) ==
    {[gameValues |-> [coins |-> ScenarioData.coins + k * 5 * maxCoinsPerMinute],
      clientTimestamp |-> At(t + FutureToleranceMs)] : k \in 1..MaxGains}

GainLoad == [clients |-> 1, reports |-> 0, syncs |-> MaxGains, ticks |-> GainTicks]

InitGain ==
    /\ load = GainLoad
    /\ db = TRUE
    /\ now = 0
    /\ base = NewPlayer("d1", ScenarioData, 0)
    /\ players = [id \in Ids |-> IF id \in PlayerIds THEN base ELSE NoPlayer]
    /\ tamperingLogs = <<>>
    /\ syncLogs = <<>>
    /\ pc = [r \in Slots |-> "idle"]
    /\ req = [r \in Slots |-> NoReq]
    /\ loc = [r \in Slots |-> NoLoc]
    /\ resp = [r \in Slots |-> NoResp]
    /\ violations = [id \in Ids |-> 0]
    /\ missed = [id \in Ids |-> 0]
    /\ run = [id \in PlayerIds |-> Off]
    /\ sent = [r \in Slots |-> NoReq]
    /\ vin = NoCall
    /\ vout = NoVerification
    /\ ValueUnused
    /\ GuardUnused

NextGain ==
    \/ Tick
    \/ \E r \in Slots : Sync(r, GainBodies(now))
    \/ \E r \in Slots : SyncRead(r)
    \/ \E r \in Slots : SyncInc(r)
    \/ \E r \in Slots : SyncReread(r)
    \/ \E r \in Slots : SyncBan(r)
    \/ \E r \in Slots : SyncWrite(r)
    \/ \E r \in Slots : SyncLog(r)

SpecGain == InitGain /\ [][NextGain]_vars

AllDone == \A r \in Slots : pc[r] = "done"

(* The same handlers run to the end with nothing in between: the record and *)
(* the response one request leaves behind.                                   *)
SerialSync(player, request, t) ==
    IF ~player.exists
        THEN [player |-> player,
              response |-> Response(404, "", "", "Player not found", "", EmptyData)]
    ELSE IF Suspended(player)
        THEN [player |-> player,
              response |-> Response(403, "", "", "Account suspended", "", EmptyData)]
    ELSE LET result == verifyGameValues(player, request.gameValues, request.powerups,
                                        request.clientTimestamp, t)
             counted == IncTampering(player, SyncEntry)
             data == UpdatedData(player.gameData, request.gameValues, t)
         IN  IF ~result.isValid
                THEN IF ShouldBan(counted)
                        THEN [player |-> BanPlayer(counted, t),
                              response |-> Response(403, "ban", "invalid", "", "",
                                                    EmptyData)]
                        ELSE [player |-> counted,
                              response |-> Response(200, "", "invalid", "",
                                                    result.reason, player.gameData)]
                ELSE [player |-> StoreValues(player, data, t),
                      response |-> Response(200, "", "valid", "", "", data)]

SerialReport(player, request) ==
    [player |-> IF player.exists THEN IncTampering(player, ReportEntry) ELSE player,
     response |-> TamperingResponse(Sanitize(request.severity))]

Serial(player, request, t) ==
    IF request.kind = "sync" THEN SerialSync(player, request, t)
                             ELSE SerialReport(player, request)

\* the racing requests served one after the other, slot `first` first
SerialOutcome(first, second) ==
    LET a == Serial(base, sent[first], 0)
        b == Serial(a.player, sent[second], 0)
    IN  [player |-> b.player,
         resp |-> [r \in Slots |-> IF r = first THEN a.response ELSE b.response]]

-----------------------------------------------------------------------------
(* verifyGameValues called directly *)

Without(rec, k) == [f \in DOMAIN rec \ {k} |-> rec[f]]

VerifyDatas ==
    {EmptyData, ScenarioData, [coins |-> 100, xp |-> 50], [health |-> 80],
     [coins |-> 0], [health |-> 50, maxHealth |-> 100, coins |-> 100, xp |-> 50],
     [health |-> 50, healthRegenRate |-> 10]}

VerifyPlayers ==
    {Without(NewPlayer("d1", EmptyData, 0), "gameData")}
    \cup {[NewPlayer("d1", d, 0) EXCEPT !.lastSync = t] :
             d \in VerifyDatas, t \in {NoTime, 0, TickMs}}

VerifyValues ==
    {EmptyData, [coins |-> 100], [coins |-> 600], [coins |-> 601], [coins |-> 1001],
     [coins |-> 5100], [health |-> 50], [health |-> 52], [health |-> 53],
     [health |-> 56], [health |-> 150], [xp |-> 10000],
     [health |-> 150, coins |-> 5100, xp |-> 10000],
     [health |-> 90, coins |-> 5100, xp |-> 10000],
     [health |-> 50, coins |-> 100, xp |-> 50], [health |-> 40, coins |-> 50, xp |-> 20],
     [coins |-> 5100, xp |-> 10000]}

\* unparsable; at the last sync; half a minute, a minute and 60 ms later;
\* five minutes after the server starts and one millisecond more; far ahead
VerifyTimestamps ==
    {NoTimestamp, At(0), At(TickMs), At(MsPerMinute + 60), At(FutureToleranceMs),
     At(FutureToleranceMs + 1), At(TickMs + 2 * FutureToleranceMs)}

VerifyCalls ==
    [player : VerifyPlayers, newValues : VerifyValues, powerups : {{}, {"health"}},
     clientTimestamp : VerifyTimestamps, currentTime : {0, TickMs}]

InitVerify ==
    /\ load = [clients |-> 0, reports |-> 0, syncs |-> 0, ticks |-> 0]
    /\ db = FALSE
    /\ now = 0
    /\ players = [id \in Ids |-> NoPlayer]
    /\ tamperingLogs = <<>>
    /\ syncLogs = <<>>
    /\ pc = [r \in Slots |-> "idle"]
    /\ req = [r \in Slots |-> NoReq]
    /\ loc = [r \in Slots |-> NoLoc]
    /\ resp = [r \in Slots |-> NoResp]
    /\ violations = [id \in Ids |-> 0]
    /\ missed = [id \in Ids |-> 0]
    /\ run = [id \in PlayerIds |-> Off]
    /\ base = NoPlayer
    /\ sent = [r \in Slots |-> NoReq]
    /\ vin \in VerifyCalls
    /\ vout = NoVerification
    /\ ValueUnused
    /\ GuardUnused

\* a verifier that writes the proposed values into the record it is given
VerifyWriting ==
    /\ ~vout.evaluated
    /\ vout' = verifyGameValues(vin.player, vin.newValues, vin.powerups,
                                vin.clientTimestamp, vin.currentTime)
    /\ vin' = [vin EXCEPT !.player = [f \in DOMAIN vin.player |->
                                        IF f = "gameData" THEN vin.newValues
                                        ELSE vin.player[f]]]
    /\ UNCHANGED <<setupVars, db, now, storeVars, pc, req, loc, resp, violations,
                   missed, run, clientVars>>

Verify ==
    /\ ~vout.evaluated
    /\ vout' = verifyGameValues(vin.player, vin.newValues, vin.powerups,
                                vin.clientTimestamp, vin.currentTime)
    /\ UNCHANGED <<setupVars, db, now, storeVars, pc, req, loc, resp, violations,
                   missed, run, vin, clientVars>>

NextVerify == Verify

SpecVerify == InitVerify /\ [][NextVerify]_vars

-----------------------------------------------------------------------------
(* ------------------------------------------------------------------ *)
(* The container's operations                                         *)
(* ------------------------------------------------------------------ *)

\* the fields lastAccessTime and accessCount are written and never read;
\* they are left out of the state

\* the constructor
New(key, initialValue, callback, h) ==
    LET original == deepClone(initialValue, h)
        current == deepClone(initialValue, original.heap)
        checksum == calculateChecksum(current.value, current.heap)
    IN [threw |-> checksum.threw,
        heap |-> current.heap,
        gameValue |-> [key |-> key,
                       originalValue |-> original.value,
                       currentValue |-> current.value,
                       checksums |-> <<checksum.text>>,
                       verificationCallback |-> callback]]

isChecksumValid(value, h) ==
    LET currentChecksum == calculateChecksum(value.currentValue, h)
    IN [threw |-> currentChecksum.threw,
        valid |-> currentChecksum.text \in Range(value.checksums)]

\* The state after a call: the container, the two values the caller holds
\* and the objects they refer to.  Objects nobody refers to any more are
\* reclaimed and the others are numbered in the order of their first use
\* (addresses carry no meaning).
Settled(value, argument, returned, h) ==
    LET roots == <<value.originalValue, value.currentValue, argument, returned>>
        live == {roots[i].n : i \in {j \in DOMAIN roots : roots[j].tag = "object"}}
        first == [a \in live |-> CHOOSE i \in DOMAIN roots :
                     roots[i] = Ref(a) /\ \A j \in 1..(i - 1) : roots[j] # Ref(a)]
        moved == [a \in live |-> Cardinality({b \in live : first[b] <= first[a]})]
        at == [i \in DOMAIN roots |->
                  IF roots[i].tag = "object" THEN Ref(moved[roots[i].n]) ELSE roots[i]]
    IN [gameValue |-> [value EXCEPT !.originalValue = at[1], !.currentValue = at[2]],
        passed |-> at[3],
        got |-> at[4],
        heap |-> [n \in Addresses |->
                     IF n <= Cardinality(live)
                     THEN h[CHOOSE a \in live : moved[a] = n]
                     ELSE Free]]

Settle(value, argument, returned, h) ==
    LET state == Settled(value, argument, returned, h)
    IN /\ gameValue' = state.gameValue
       /\ passed' = state.passed
       /\ got' = state.got
       /\ heap' = state.heap

InitValue ==
    /\ load = [clients |-> 0, reports |-> 0, syncs |-> 0, ticks |-> 0]
    /\ db = FALSE
    /\ now = 0
    /\ players = [id \in Ids |-> NoPlayer]
    /\ tamperingLogs = <<>>
    /\ syncLogs = <<>>
    /\ pc = [r \in Slots |-> "idle"]
    /\ req = [r \in Slots |-> NoReq]
    /\ loc = [r \in Slots |-> NoLoc]
    /\ resp = [r \in Slots |-> NoResp]
    /\ violations = [id \in Ids |-> 0]
    /\ missed = [id \in Ids |-> 0]
    /\ run = [id \in PlayerIds |-> Off]
    /\ base = NoPlayer
    /\ sent = [r \in Slots |-> NoReq]
    /\ vin = NoCall
    /\ vout = NoVerification
    /\ \E arg \in Arguments, callback \in Callbacks :
          LET caller == Caller(arg, EmptyHeap)
              made == New("hp", caller.value, callback, caller.heap)
              state == Settled(made.gameValue, caller.value, Undefined, made.heap)
          IN /\ ~made.threw
             /\ gameValue = state.gameValue
             /\ passed = state.passed
             /\ heap = state.heap
             /\ given = IF arg.object
                        THEN [tag |-> "object",
                              hp |-> IF arg.content = Undefined THEN Absent
                                     ELSE arg.content]
                        ELSE arg.content
    /\ got = Undefined
    /\ call = NoResult
    /\ fresh = FALSE
    /\ tampered = FALSE
    /\ GuardUnused

backendVars == <<setupVars, db, now, storeVars, pc, req, loc, resp, violations,
                 missed, run, callVars>>
serverVars == <<backendVars, guardVars>>

Get ==
    LET checked == isChecksumValid(gameValue, heap)
        clone == deepClone(gameValue.currentValue, heap)
    IN /\ IF checked.threw
          THEN /\ call' = Threw("get")
               /\ UNCHANGED <<gameValue, passed, got, heap>>
          ELSE /\ call' = Returned("get", checked.valid)
               /\ Settle(gameValue, passed, clone.value, clone.heap)
       /\ UNCHANGED <<serverVars, given, fresh, tampered>>

\* set, with a value of the container's type T (an object where the
\* container was made from an object); the caller lets go of the values it
\* held
Set(arg) ==
    LET caller == Caller(arg, heap)
        newValue == caller.value
        checked == isChecksumValid(gameValue, caller.heap)
        clone == deepClone(newValue, caller.heap)
        checksum == calculateChecksum(clone.value, clone.heap)
        stored == [gameValue EXCEPT !.currentValue = clone.value]
    IN /\ arg.object = (gameValue.originalValue.tag = "object")
       /\ fresh' = TRUE
       /\ IF checked.threw
          THEN /\ call' = Threw("set")
               /\ Settle(gameValue, newValue, Undefined, caller.heap)
               /\ UNCHANGED tampered
          ELSE IF checksum.threw
          THEN /\ call' = Threw("set")
               /\ Settle(stored, newValue, Undefined, clone.heap)
               /\ UNCHANGED tampered
          ELSE /\ call' = Returned("set", checked.valid)
               /\ Settle([stored EXCEPT !.checksums = <<checksum.text>>],
                         newValue, Undefined, clone.heap)
               /\ tampered' = FALSE
       /\ UNCHANGED <<serverVars, given>>

\* reset; the caller lets go of the values it held
Reset ==
    LET clone == deepClone(gameValue.originalValue, heap)
        checksum == calculateChecksum(clone.value, clone.heap)
        stored == [gameValue EXCEPT !.currentValue = clone.value]
    IN /\ fresh' = FALSE
       /\ IF checksum.threw
          THEN /\ call' = Threw("reset")
               /\ Settle(stored, Undefined, Undefined, clone.heap)
               /\ UNCHANGED tampered
          ELSE /\ call' = Returned("reset", TRUE)
               /\ Settle([stored EXCEPT !.checksums = <<checksum.text>>],
                         Undefined, Undefined, clone.heap)
               /\ tampered' = FALSE
       /\ UNCHANGED <<serverVars, given>>

VerifyValue ==
    LET checked == isChecksumValid(gameValue, heap)
        isCustomVerificationValid ==
            IF ~checked.valid THEN FALSE
            ELSE IF gameValue.verificationCallback # "none"
                 THEN verificationCallback(gameValue.verificationCallback)
                 ELSE TRUE
    IN /\ call' = IF checked.threw THEN Threw("verify")
                  ELSE Returned("verify", checked.valid /\ isCustomVerificationValid)
       /\ UNCHANGED <<serverVars, given, gameValue, heap, passed, got, fresh, tampered>>

\* a write to currentValue that does not go through the container: a
\* primitive is replaced, an object is changed in place
Tamper(p) ==
    /\ IF gameValue.currentValue.tag = "object"
       THEN /\ heap[gameValue.currentValue.n] # p
            /\ heap' = [heap EXCEPT ![gameValue.currentValue.n] = p]
            /\ UNCHANGED gameValue
       ELSE /\ gameValue.currentValue # p
            /\ gameValue' = [gameValue EXCEPT !.currentValue = p]
            /\ UNCHANGED heap
    /\ call' = Returned("tamper", FALSE)
    /\ fresh' = FALSE
    /\ tampered' = TRUE
    /\ UNCHANGED <<serverVars, given, passed, got>>

\* the caller writes into an object of its own: the one it passed to the
\* constructor or to set, or the one get returned
Mutate(held, p) ==
    /\ held.tag = "object"
    /\ heap[held.n] # p
    /\ heap' = [heap EXCEPT ![held.n] = p]
    /\ call' = Returned("write", FALSE)
    /\ fresh' = FALSE
    /\ UNCHANGED <<serverVars, given, gameValue, passed, got, tampered>>

NextValue ==
    \/ Get
    \/ \E arg \in Arguments : Set(arg)
    \/ Reset
    \/ VerifyValue
    \/ \E p \in Numbers : Tamper(Num(p))
    \/ \E p \in Numbers : Mutate(passed, Num(p))
    \/ \E p \in Numbers : Mutate(got, Num(p))

SpecValue == InitValue /\ [][NextValue]_vars

-----------------------------------------------------------------------------
(* MemoryScanner (src/unnamed/part_001, lines 149-325)                    *)
(* ------------------------------------------------------------------ *)

\* Date.now() when the page was loaded, 1700000000000, in its high part
LoadTime == 17000000
\* the longest time the clock runs after that, in milliseconds
MaxClock == 6001
\* private checkInterval: number = 1000
checkInterval == 1000
\* expectedMaxDiff: 5000
expectedMaxDiff == 5000

\* Date.now() where the clock has advanced by clock milliseconds
DateNow(clock) == <<LoadTime, clock>>
\* a - b, a > 0, a < 0 and a > ms of such times
TimeDiff(a, b) == <<a[1] - b[1], a[2] - b[2]>>
TimePositive(d) == d[1] > 0 \/ (d[1] = 0 /\ d[2] > 0)
TimeNegative(d) == d[1] < 0 \/ (d[1] = 0 /\ d[2] < 0)
TimeAbove(d, ms) == d[1] > 0 \/ (d[1] = 0 /\ d[2] > ms)
\* toString() of a time: the low part has five digits under a high part
TimeText(t) ==
    IF t[1] = 0 THEN DecimalText(t[2])
    ELSE DecimalText(t[1])
            \o [i \in 1..(5 - Len(DecimalText(t[2]))) |-> "0"] \o DecimalText(t[2])

\* padStart(32, '0')
PadStart(text) == [i \in 1..(32 - Len(text)) |-> "0"] \o text

\* simulateMd5: the rolling hash of the characters, its magnitude in
\* hexadecimal digits
simulateMd5(input) ==
    IF input = <<>> THEN <<"0">>
    ELSE PadStart(HashText(Magnitude(HashOf(<<0, 0>>,
                     [i \in 1..Len(input) |-> charCodeAt[input[i]]]))))

\* the keys address:size given by initializeSensitiveRegions
RegionAddress == <<"0", "x", "1", "2", "3">>
sensitiveAddresses ==
    <<RegionAddress \o <<"4", "0", "0", "0", "0", ":", "1", "0", "2", "4">>,
      RegionAddress \o <<"5", "0", "0", "0", "0", ":", "5", "1", "2">>,
      RegionAddress \o <<"6", "0", "0", "0", "0", ":", "2", "5", "6">>>>

\* calculateChecksumForRegion: region.split(':'), parseInt of the size, and
\* the hash of address + size + Date.now().toString()
calculateChecksumForRegion(region, time) ==
    LET colon == CHOOSE i \in 1..Len(region) : region[i] = ":"
        address == SubSeq(region, 1, colon - 1)
        size == ParseDecimal(SubSeq(region, colon + 1, Len(region)))
    IN simulateMd5(address \o DecimalText(size) \o TimeText(time))

\* updateMemoryChecksums: a new checksum is saved for each region
updateMemoryChecksums(scanner, time) ==
    [scanner EXCEPT !.memoryChecksums =
        [i \in 1..Len(sensitiveAddresses) |->
            calculateChecksumForRegion(sensitiveAddresses[i], time)]]

\* new MemoryScanner() at this time: initializeSensitiveRegions saves a
\* checksum for each region
NewScanner(time) == updateMemoryChecksums(NoScanner, time)

\* checkMemoryChecksums: the regions whose checksum is not the saved one
checkMemoryChecksums(scanner, time) ==
    {i \in 1..Len(sensitiveAddresses) :
        calculateChecksumForRegion(sensitiveAddresses[i], time)
            # scanner.memoryChecksums[i]}

\* scanMemoryForTampering at this time: the result and the scanner after it.
\* lastScanTime is set before it is tested.
scanMemoryForTampering(scanner, currentTime) ==
    LET timeDiff == TimeDiff(currentTime, scanner.lastScanTime)
        timed == [scanner EXCEPT !.lastScanTime = currentTime]
        tamperedRegions == checkMemoryChecksums(timed, currentTime)
    IN IF /\ TimePositive(timed.lastScanTime)
          /\ (TimeAbove(timeDiff, expectedMaxDiff) \/ TimeNegative(timeDiff))
       THEN [tampered |-> TRUE, reason |-> "time_manipulation", scanner |-> timed]
       ELSE IF tamperedRegions # {}
       THEN [tampered |-> TRUE, reason |-> "checksum_mismatch", scanner |-> timed]
       ELSE [tampered |-> FALSE, reason |-> "none",
             scanner |-> updateMemoryChecksums(timed, currentTime)]

-----------------------------------------------------------------------------
(* MemoryProtector (src/src/lib/memoryGuard/memoryProtector.ts)           *)
(* ------------------------------------------------------------------ *)

\* a >= b of JavaScript, for an integer a and a number b: false for NaN
AtLeast(a, b) == b.tag = "number" /\ a >= b.n

\* Math.max(1, attempts): NaN where attempts is NaN
MathMax1(attempts) ==
    IF attempts.tag = "NaN" THEN NaN
    ELSE IF attempts.n > 1 THEN attempts ELSE Num(1)

\* applyCountermeasures, of a protector p: the attempt is counted, then the
\* terminal or the warning countermeasures are applied
applyCountermeasures(p) ==
    LET detectedTamperingAttempts == p.detectedTamperingAttempts + 1
    IN [p EXCEPT !.detectedTamperingAttempts = detectedTamperingAttempts,
                 !.countermeasures =
                     IF AtLeast(detectedTamperingAttempts, p.maxTamperingAttempts)
                     THEN "terminal" ELSE "warning"]

-----------------------------------------------------------------------------
(* GuardianShield, the guardian of the web client library                 *)
(* (src/src/lib/memoryGuard/GameGuardianShield.java, lines 915-1204)      *)
(* ------------------------------------------------------------------ *)

\* JavaScript runs one call at a time: start(), stop(), a timer callback or a
\* call of the game run from beginning to end before the next begins. A
\* call of runChecks is taken in four steps so that the states inside it are
\* states of the model. The callback given to onCheatDetected is the game's
\* code; it is taken not to call back into the shield. checkValue is
\* private and has no caller: it never runs.

MaxDetections == 4      \* detectedTamperingAttempts stays within 0..MaxDetections
MaxRequests == 3        \* reports sent and not yet answered
EventsPerCycle == 3     \* runChecks raises at most TOOL_DETECTED,
                        \* MEMORY_TAMPERING and VALUE_TAMPERING

\* the values the game gives to protectValue and to set
ShieldArguments == {arg \in Arguments : ~arg.object}

\* handleCheatDetected, of a shield s: the protector counts the attempt and
\* sends a report where an endpoint is configured; the game's callback
\* changes nothing of the shield
handleCheatDetected(s) ==
    [applyCountermeasures(s) EXCEPT
        !.requests = IF s.serverLogEndpoint THEN @ + 1 ELSE @]

\* runChecks has room for the events of one more call
RoomForCycle ==
    /\ shield.detectedTamperingAttempts + EventsPerCycle <= MaxDetections
    /\ shield.requests + EventsPerCycle <= MaxRequests

\* runChecks begins, called by start() or by the timer
Begun(by) ==
    [NoCycle EXCEPT !.at = "tool", !.by = by]

\* the shield of a game that called protectValue('hp', 0), with or without a
\* server endpoint
InitShield ==
    /\ load = [clients |-> 0, reports |-> 0, syncs |-> 0, ticks |-> 0]
    /\ db = FALSE
    /\ now = 0
    /\ players = [id \in Ids |-> NoPlayer]
    /\ tamperingLogs = <<>>
    /\ syncLogs = <<>>
    /\ pc = [r \in Slots |-> "idle"]
    /\ req = [r \in Slots |-> NoReq]
    /\ loc = [r \in Slots |-> NoLoc]
    /\ resp = [r \in Slots |-> NoResp]
    /\ violations = [id \in Ids |-> 0]
    /\ missed = [id \in Ids |-> 0]
    /\ run = [id \in PlayerIds |-> Off]
    /\ base = NoPlayer
    /\ sent = [r \in Slots |-> NoReq]
    /\ vin = NoCall
    /\ vout = NoVerification
    /\ LET made == New("hp", Num(0), "shield", EmptyHeap)
       IN /\ gameValue = made.gameValue
          /\ heap = made.heap
    /\ passed = Num(0)
    /\ given = Num(0)
    /\ got = Undefined
    /\ call = NoResult
    /\ fresh = FALSE
    /\ tampered = FALSE
    /\ \E endpoint \in BOOLEAN :
          shield = [NoShield EXCEPT !.serverLogEndpoint = endpoint,
                                    !.scanner = NewScanner(DateNow(0))]
    /\ cycle = NoCycle
    /\ android = NoAndroid

\* the time passed since the call before, where a call reads the clock: none
\* that Date.now() shows, the time of a timer period, or more than the
\* scanner expects between two scans
Durations == {0, checkInterval, expectedMaxDiff + 1}

\* start() as it would be without its first line
startAgain(ms) ==
    /\ cycle.at = "idle"
    /\ RoomForCycle
    /\ shield.clock + ms <= MaxClock
    /\ cycle' = Begun("start")
    /\ shield' = [shield EXCEPT !.clock = @ + ms]
    /\ UNCHANGED <<backendVars, valueVars, android>>

\* start(): returns true at once when running, else runs the first check
start(ms) ==
    /\ cycle.at = "idle"
    /\ IF shield.isRunning
       THEN /\ ms = 0
            /\ cycle' = [NoCycle EXCEPT !.last = Returned("start", TRUE)]
            /\ UNCHANGED shield
       ELSE /\ RoomForCycle
            /\ shield.clock + ms <= MaxClock
            /\ cycle' = Begun("start")
            /\ shield' = [shield EXCEPT !.clock = @ + ms]
    /\ UNCHANGED <<backendVars, valueVars, android>>

\* stop()
stop ==
    /\ cycle.at = "idle"
    /\ shield' = IF shield.isRunning
                 THEN [shield EXCEPT !.isRunning = FALSE, !.intervalId = FALSE,
                                     !.timers = IF shield.intervalId THEN @ - 1
                                                ELSE @,
                                     !.due = 0]
                 ELSE shield
    /\ cycle' = [NoCycle EXCEPT !.last = Returned("stop", TRUE)]
    /\ UNCHANGED <<backendVars, valueVars, android>>

\* the timer set by start() fires, every checkInterval milliseconds or later
interval(ms) ==
    /\ cycle.at = "idle"
    /\ shield.timers > 0
    /\ shield.clock + ms >= shield.due
    /\ shield.clock + ms <= MaxClock
    /\ RoomForCycle
    /\ cycle' = Begun("timer")
    /\ shield' = [shield EXCEPT !.clock = @ + ms, !.due = @ + checkInterval]
    /\ UNCHANGED <<backendVars, valueVars, android>>

\* the checks of ToolDetector.detectCheatTools in the order it makes them:
\* installed apps, processes and memory signatures ("tool"), then the
\* debugger, then the emulator
DetectorProbes == <<"tool", "debugger", "emulator">>

\* detectCheatTools, where check number found is the first to detect
\* (0: none does): it returns at the first detection
detectCheatTools(found) ==
    [detected |-> found # 0,
     ran |-> [i \in 1..(IF found = 0 THEN Len(DetectorProbes) ELSE found) |->
                 [probe |-> DetectorProbes[i], detected |-> i = found]]]

\* runChecks, lines 1126-1135: detectCheatTools and its event
runChecksTools(found) ==
    LET toolsDetectionResult == detectCheatTools(found)
    IN /\ cycle.at = "tool"
       /\ cycle' = [cycle EXCEPT
                       !.at = "memory",
                       !.ran = @ \o toolsDetectionResult.ran,
                       !.criticalIssueDetected = toolsDetectionResult.detected,
                       !.events = IF toolsDetectionResult.detected
                                  THEN Append(@, "TOOL_DETECTED") ELSE @]
       /\ shield' = IF toolsDetectionResult.detected
                    THEN handleCheatDetected(shield) ELSE shield
       /\ UNCHANGED <<backendVars, valueVars, android>>

\* runChecks, lines 1138-1150: scanMemoryForTampering and its event, then
\* isVerifying is set
runChecksMemory ==
    LET memoryScanResult ==
            scanMemoryForTampering(shield.scanner, DateNow(shield.clock))
        isTampered == memoryScanResult.tampered
    IN /\ cycle.at = "memory"
       /\ cycle' = [cycle EXCEPT
                       !.at = "values",
                       !.ran = Append(@, [probe |-> "memory", detected |-> isTampered]),
                       !.criticalIssueDetected = @ \/ isTampered,
                       !.events = IF isTampered THEN Append(@, "MEMORY_TAMPERING")
                                  ELSE @]
       /\ shield' = [(IF isTampered THEN handleCheatDetected(shield) ELSE shield)
                       EXCEPT !.isVerifying = TRUE,
                              !.scanner = memoryScanResult.scanner]
       /\ UNCHANGED <<backendVars, valueVars, android>>

\* runChecks, lines 1154-1160: verify() of the protected value. It calls the
\* hook of protectValue where the checksum is valid. Where calculateChecksum
\* throws the error leaves runChecks and the call that made it.
runChecksValues ==
    LET checked == isChecksumValid(gameValue, heap)
        hooked == checked.valid /\ gameValue.verificationCallback # "none"
        isCustomVerificationValid ==
            IF ~checked.valid THEN FALSE
            ELSE IF hooked THEN verificationCallback(gameValue.verificationCallback)
                 ELSE TRUE
    IN /\ cycle.at = "values"
       /\ IF checked.threw
          THEN /\ cycle' = [cycle EXCEPT !.at = "idle", !.last = Threw(cycle.by)]
               /\ call' = Threw("verify")
          ELSE /\ cycle' = [cycle EXCEPT
                               !.at = "report",
                               !.hooks = IF hooked
                                         THEN Append(@, isCustomVerificationValid)
                                         ELSE @,
                               !.valuesTampered =
                                   ~(checked.valid /\ isCustomVerificationValid)]
               /\ call' = Returned("verify", checked.valid /\ isCustomVerificationValid)
       /\ UNCHANGED <<backendVars, shield, android, gameValue, heap, passed, got,
                      given, fresh, tampered>>

\* start() as it would be if it set isRunning and the timer whatever the
\* first check found
runChecksReturnRegardless ==
    LET reported == IF cycle.valuesTampered THEN handleCheatDetected(shield)
                    ELSE shield
        criticalIssueDetected == cycle.criticalIssueDetected \/ cycle.valuesTampered
        started == cycle.by = "start"
    IN /\ cycle.at = "report"
       /\ shield' = [reported EXCEPT
                        !.isVerifying = FALSE,
                        !.isRunning = @ \/ started,
                        !.intervalId = @ \/ started,
                        !.timers = IF started THEN @ + 1 ELSE @,
                        !.due = IF started THEN shield.clock + checkInterval ELSE @]
       /\ cycle' = [cycle EXCEPT
                       !.at = "idle",
                       !.criticalIssueDetected = criticalIssueDetected,
                       !.events = IF cycle.valuesTampered
                                  THEN Append(@, "VALUE_TAMPERING") ELSE @,
                       !.last = Returned(cycle.by, ~criticalIssueDetected)]
       /\ UNCHANGED <<backendVars, valueVars, android>>

\* runChecks, lines 1162-1174, and the rest of its caller: isVerifying is
\* cleared, the event of the values is raised, and start() decides
runChecksReturn ==
    LET reported == IF cycle.valuesTampered THEN handleCheatDetected(shield)
                    ELSE shield
        criticalIssueDetected == cycle.criticalIssueDetected \/ cycle.valuesTampered
        started == cycle.by = "start" /\ ~criticalIssueDetected
    IN /\ cycle.at = "report"
       /\ shield' = [reported EXCEPT
                        !.isVerifying = FALSE,
                        !.isRunning = @ \/ started,
                        !.intervalId = @ \/ started,
                        !.timers = IF started THEN @ + 1 ELSE @,
                        !.due = IF started THEN shield.clock + checkInterval ELSE @]
       /\ cycle' = [cycle EXCEPT
                       !.at = "idle",
                       !.criticalIssueDetected = criticalIssueDetected,
                       !.events = IF cycle.valuesTampered
                                  THEN Append(@, "VALUE_TAMPERING") ELSE @,
                       !.last = Returned(cycle.by, ~criticalIssueDetected)]
       /\ UNCHANGED <<backendVars, valueVars, android>>

\* the server answers a report: the handlers of reportTamperingToServer
\* write to the console only
reportAnswered ==
    /\ shield.requests > 0
    /\ shield' = [shield EXCEPT !.requests = @ - 1]
    /\ UNCHANGED <<backendVars, valueVars, cycle, android>>

\* the game uses the value it protected, between two calls of the shield
GameSet(arg) == cycle.at = "idle" /\ Set(arg)
GameReset == cycle.at = "idle" /\ Reset

NextShield ==
    \/ \E ms \in Durations : start(ms)
    \/ stop
    \/ \E ms \in Durations : interval(ms)
    \/ \E found \in 0..Len(DetectorProbes) : runChecksTools(found)
    \/ runChecksMemory
    \/ runChecksValues
    \/ runChecksReturn
    \/ reportAnswered
    \/ \E arg \in ShieldArguments : GameSet(arg)
    \/ GameReset
    \* a memory editor writes the protected value
    \/ \E p \in Primitives : Tamper(p)

SpecShield == InitShield /\ [][NextShield]_vars

-----------------------------------------------------------------------------
(* A MemoryProtector of its own, as a game that imports the class uses it: *)
(* new MemoryProtector() and calls of its public methods.                  *)

MaxAttempts == 8      \* detectedTamperingAttempts stays within 0..MaxAttempts
MaxSetting == 6       \* the largest number given to setMaxTamperingAttempts

\* the numbers a caller gives to setMaxTamperingAttempts
Settings == {Num(n) : n \in (0 - 1)..MaxSetting} \cup {NaN}

InitAttempts ==
    /\ load = [clients |-> 0, reports |-> 0, syncs |-> 0, ticks |-> 0]
    /\ db = FALSE
    /\ now = 0
    /\ players = [id \in Ids |-> NoPlayer]
    /\ tamperingLogs = <<>>
    /\ syncLogs = <<>>
    /\ pc = [r \in Slots |-> "idle"]
    /\ req = [r \in Slots |-> NoReq]
    /\ loc = [r \in Slots |-> NoLoc]
    /\ resp = [r \in Slots |-> NoResp]
    /\ violations = [id \in Ids |-> 0]
    /\ missed = [id \in Ids |-> 0]
    /\ run = [id \in PlayerIds |-> Off]
    /\ base = NoPlayer
    /\ sent = [r \in Slots |-> NoReq]
    /\ vin = NoCall
    /\ vout = NoVerification
    /\ ValueUnused
    /\ GuardUnused

\* a call of applyCountermeasures()
countermeasures ==
    /\ shield.detectedTamperingAttempts < MaxAttempts
    /\ shield' = applyCountermeasures(shield)
    /\ cycle' = [NoCycle EXCEPT !.last = Returned("applyCountermeasures", TRUE)]
    /\ UNCHANGED <<backendVars, valueVars, android>>

\* resetTamperingAttempts()
resetTamperingAttempts ==
    /\ shield' = [shield EXCEPT !.detectedTamperingAttempts = 0]
    /\ cycle' = [NoCycle EXCEPT !.last = Returned("resetTamperingAttempts", TRUE)]
    /\ UNCHANGED <<backendVars, valueVars, android>>

\* setMaxTamperingAttempts(attempts)
setMaxTamperingAttempts(attempts) ==
    /\ shield' = [shield EXCEPT !.maxTamperingAttempts = MathMax1(attempts)]
    /\ cycle' = [NoCycle EXCEPT !.last = Returned("setMaxTamperingAttempts", TRUE)]
    /\ UNCHANGED <<backendVars, valueVars, android>>

NextAttempts ==
    \/ countermeasures
    \/ resetTamperingAttempts
    \/ \E attempts \in Settings : setMaxTamperingAttempts(attempts)

SpecAttempts == InitAttempts /\ [][NextAttempts]_vars

-----------------------------------------------------------------------------
(* GameGuardianShield, the guardian of the Android library                *)
(* (src/src/lib/memoryGuard/GameGuardianShield.java, lines 35-853)        *)
(* ------------------------------------------------------------------ *)

\* The game calls the shield on the main thread. integrityChecker runs on
\* the main looper; checkIntegrity, reportViolationToServer and
\* syncGameValuesWithServer each hand a task to the single-thread executor,
\* which runs them one after the other in the order they were handed in. A
\* task is taken in two steps, its beginning and its end, and the main
\* thread runs between them. The listener is the game's code; it is taken
\* not to call back into the shield.

maxViolations == 3      \* the default of the field maxViolations
MaxPosted == 2          \* messages of integrityChecker in the looper's queue
MaxQueue == 2           \* tasks waiting for the executor's thread
ViolationsBound == 4    \* currentViolations stays within 0..ViolationsBound

Tasks == {"check", "report", "sync"}

\* the key protectInt files the game's ProtectedValue under: "int:" + ptr
ProtectedKey == <<"i", "n", "t", ":", "1">>

\* the keys a game registers its value under
GameKeys == {<<"c", "o", "i", "n", "s">>, <<"i", "n", "t">>}

\* String.contains
Contains(text, part) ==
    \E i \in 0..(Len(text) - Len(part)) : SubSeq(text, i + 1, i + Len(part)) = part

\* entry.getKey().contains(key), for the entry of the game's ProtectedValue
KeyMatchesProtected(key) == Contains(ProtectedKey, key)

InitProtection ==
    /\ load = [clients |-> 0, reports |-> 0, syncs |-> 0, ticks |-> 0]
    /\ db = FALSE
    /\ now = 0
    /\ players = [id \in Ids |-> NoPlayer]
    /\ tamperingLogs = <<>>
    /\ syncLogs = <<>>
    /\ pc = [r \in Slots |-> "idle"]
    /\ req = [r \in Slots |-> NoReq]
    /\ loc = [r \in Slots |-> NoLoc]
    /\ resp = [r \in Slots |-> NoResp]
    /\ violations = [id \in Ids |-> 0]
    /\ missed = [id \in Ids |-> 0]
    /\ run = [id \in PlayerIds |-> Off]
    /\ base = NoPlayer
    /\ sent = [r \in Slots |-> NoReq]
    /\ vin = NoCall
    /\ vout = NoVerification
    /\ ValueUnused
    /\ shield = NoShield
    /\ cycle = NoCycle
    /\ \E connected \in BOOLEAN, key \in GameKeys :
          android = [NoAndroid EXCEPT !.connected = connected,
                                      !.key = key,
                                      !.protectedValue = Num(0)]

\* syncGameValuesWithServer, lines 299-305, of a shield a: the task is handed
\* in where a player and a game value are set
Synced(a) ==
    IF a.connected /\ a.gameValues # Absent
    THEN [a EXCEPT !.queue = Append(@, "sync")]
    ELSE a

\* startProtection()
startProtection(initialized) ==
    /\ android.posted < MaxPosted
    /\ android' = IF initialized
                  THEN [android EXCEPT !.isProtectionActive = TRUE,
                                       !.posted = @ + 1]
                  ELSE android
    /\ UNCHANGED <<backendVars, valueVars, shield, cycle>>

\* stopProtection(): removeCallbacks takes every message of integrityChecker
\* out of the looper's queue
stopProtection ==
    /\ android.isProtectionActive
    /\ android' = [android EXCEPT !.isProtectionActive = FALSE, !.posted = 0]
    /\ UNCHANGED <<backendVars, valueVars, shield, cycle>>

\* the looper delivers a message of integrityChecker
integrityChecker ==
    /\ android.posted > 0
    /\ Len(android.queue) < MaxQueue
    /\ android' = IF android.isProtectionActive
                  THEN [android EXCEPT !.queue = Append(@, "check")]
                  ELSE [android EXCEPT !.posted = @ - 1]
    /\ UNCHANGED <<backendVars, valueVars, shield, cycle>>

\* registerGameValue(key, value)
registerGameValue(value) ==
    /\ Len(android.queue) < MaxQueue
    /\ android' = Synced([android EXCEPT !.gameValues = value])
    /\ UNCHANGED <<backendVars, valueVars, shield, cycle>>

\* updateGameValue(key, newValue)
updateGameValue(newValue) ==
    /\ Len(android.queue) < MaxQueue
    /\ android' = IF android.gameValues # Absent
                  THEN Synced([android EXCEPT !.gameValues = newValue])
                  ELSE android
    /\ UNCHANGED <<backendVars, valueVars, shield, cycle>>

\* ProtectedValue.set(value), by the game
protectedSet(value) ==
    /\ android.protectedValue # value
    /\ android' = [android EXCEPT !.protectedValue = value]
    /\ UNCHANGED <<backendVars, valueVars, shield, cycle>>

\* the executor's thread takes the next task
executorTakes ==
    /\ android.running = "none"
    /\ android.queue # <<>>
    /\ android' = [android EXCEPT !.running = Head(android.queue),
                                  !.queue = Tail(@)]
    /\ UNCHANGED <<backendVars, valueVars, shield, cycle>>

\* the task of checkIntegrity, lines 455-507: the probes in order, each run
\* only where none before it has failed
checkIntegrity(tools, memory, values) ==
    LET integrityFailed == tools \/ memory \/ values
        counted == android.currentViolations + 1
        severity == IF counted >= maxViolations THEN 2 ELSE 1
        punished == [android EXCEPT
                        !.running = "none",
                        !.currentViolations = counted,
                        !.protectedValue = IF severity >= 2 THEN Num(0) ELSE @]
        reported == IF android.connected
                    THEN [punished EXCEPT !.queue = Append(@, "report")]
                    ELSE punished
    IN /\ android.running = "check"
       /\ IF integrityFailed
          THEN /\ android.currentViolations < ViolationsBound
               /\ Len(android.queue) + 2 <= MaxQueue
               /\ android' = Synced(reported)
          ELSE android' = [android EXCEPT !.running = "none"]
       /\ UNCHANGED <<backendVars, valueVars, shield, cycle>>

\* the task of reportViolationToServer, lines 535-583: the answer is logged
reportViolationToServer ==
    /\ android.running = "report"
    /\ android' = [android EXCEPT !.running = "none"]
    /\ UNCHANGED <<backendVars, valueVars, shield, cycle>>

\* applyServerValues, of a shield a: serverValue is what serverValues holds
\* under the game's key, Absent where it has no such key
applyServerValues(a, serverValue) ==
    IF a.gameValues # Absent /\ serverValue # Absent
    THEN [a EXCEPT !.gameValues = serverValue,
                   !.protectedValue = IF KeyMatchesProtected(a.key)
                                      THEN serverValue ELSE @]
    ELSE a

\* the task of syncGameValuesWithServer, lines 307-383, from the server's
\* answer on: the values of an answer "invalid" are applied
syncGameValuesWithServer(status, serverValue) ==
    /\ android.running = "sync"
    /\ android' = [(IF status = "invalid"
                    THEN applyServerValues(android, serverValue)
                    ELSE android) EXCEPT
                      !.running = "none",
                      !.answer = [status |-> status, value |-> serverValue]]
    /\ UNCHANGED <<backendVars, valueVars, shield, cycle>>

\* what the server may hold under the game's key
ServerValues == {Num(n) : n \in Numbers} \cup {Absent}

NextProtection ==
    \/ \E initialized \in BOOLEAN : startProtection(initialized)
    \/ stopProtection
    \/ integrityChecker
    \/ \E value \in Numbers : registerGameValue(Num(value))
    \/ \E value \in Numbers : updateGameValue(Num(value))
    \/ \E value \in Numbers : protectedSet(Num(value))
    \/ executorTakes
    \/ \E tools, memory, values \in BOOLEAN : checkIntegrity(tools, memory, values)
    \/ reportViolationToServer
    \/ \E status \in {"valid", "invalid", "error"}, value \in ServerValues :
          syncGameValuesWithServer(status, value)

SpecProtection == InitProtection /\ [][NextProtection]_vars

-----------------------------------------------------------------------------
(* Properties *)

Last(seq) == seq[Len(seq)]

\* a report naming player p has been logged last and its counter update has
\* met p's record
ReportCounted(p) ==
    /\ AllQuiet
    /\ Len(tamperingLogs) > 0
    /\ Last(tamperingLogs).playerId = p
    /\ players[p].exists
    /\ missed[p] = 0

(* C1: a player registered with game data whose first three syncs are all   *)
(* value-rejected, one at a time and with no other request in between, is    *)
(* suspended by the third (403, action "ban", isBanned true), and a fourth   *)
(* sync is answered 403 "Account suspended" with no rule evaluated: nothing  *)
(* more is counted.                                                          *)
ThirdRejectionBans ==
    \A p \in PlayerIds :
        /\ run[p] \in {3, 4} => players[p].isBanned
        /\ run[p] = 3 /\ pc[1] = "done" =>
              resp[1].code = 403 /\ resp[1].action = "ban"
        /\ run[p] = 4 =>
              /\ resp[1].code = 403 /\ resp[1].error = "Account suspended"
              /\ players[p].tamperingAttempts = maxTamperingAttempts
              /\ Len(players[p].tampering) = maxTamperingAttempts

FourthSyncAnswered == \E p \in PlayerIds : run[p] = 4

(* C2: whenever no request is in progress, a player whose tamperingAttempts *)
(* has reached maxTamperingAttempts is banned.                               *)
ThresholdMeansBanned ==
    AllQuiet =>
        \A p \in Ids :
            players[p].tamperingAttempts >= maxTamperingAttempts => players[p].isBanned

(* C3: no step of any request, a re-registration included, clears isBanned  *)
(* or lowers tamperingAttempts.                                              *)
BanAndCounterMonotone ==
    [][\A p \in Ids :
          /\ players[p].isBanned => players'[p].isBanned
          /\ players'[p].tamperingAttempts >= players[p].tamperingAttempts]_vars

BannedPlayerReRegistered ==
    \E p \in PlayerIds :
        /\ players[p].isBanned
        /\ players[p].lastSeen > players[p].banTimestamp

(* C4: a sync that reads a banned record is answered 403 "Account           *)
(* suspended" whatever values it carries, and it ends there with the store   *)
(* as it was.                                                                *)
BannedSyncRefused ==
    [][\A r \in Slots :
          (/\ pc[r] = "syncRead" /\ pc'[r] # "syncRead"
           /\ players[req[r].playerId].isBanned)
          => /\ pc'[r] = "done"
             /\ resp'[r].code = 403 /\ resp'[r].error = "Account suspended"
             /\ storeVars' = storeVars]_vars

SuspendedAnswerSeen ==
    \E r \in Slots : pc[r] = "done" /\ resp[r].error = "Account suspended"

(* C5: when two racing requests for one player are both over, the player's  *)
(* tamperingAttempts is the value before the race plus the number of         *)
(* violations among them (value-rejected syncs and reports).                 *)
RacingViolationsAllCounted ==
    AllDone =>
        \A p \in PlayerIds :
            players[p].tamperingAttempts = base.tamperingAttempts + violations[p]

TwoRacingViolationsOver ==
    /\ AllDone
    /\ \E p \in PlayerIds :
          /\ violations[p] = Cardinality(Slots)
          /\ \E r \in Slots : sent[r].kind = "sync"
          /\ \E r \in Slots : sent[r].kind = "report"

(* C6: when two racing syncs of one player are both over, the record and    *)
(* the two responses are those of serving the two one after the other, in    *)
(* one of the two orders.                                                    *)
RacingSyncsSerializable ==
    (AllDone /\ \A r \in Slots : sent[r].kind = "sync") =>
        \E first \in Slots : \E second \in Slots \ {first} :
            /\ players = [id \in Ids |-> IF id \in PlayerIds
                                            THEN SerialOutcome(first, second).player
                                            ELSE NoPlayer]
            /\ resp = SerialOutcome(first, second).resp

(* C7: a report received with severity critical is answered 403 with action *)
(* "ban", for a registered, an unknown and an absent playerId alike; a       *)
(* report with any other severity is answered 200 with action "warn".        *)
ReportAnswerBySeverity ==
    \A r \in Slots :
        pc[r] = "tlogInsert" =>
            IF req[r].severity = "critical"
                THEN resp[r].code = 403 /\ resp[r].action = "ban"
                ELSE resp[r].code = 200 /\ resp[r].action = "warn"

CriticalReportOfUnknownPlayer ==
    \E r \in Slots :
        /\ pc[r] = "tlogInsert"
        /\ req[r].severity = "critical"
        /\ req[r].playerId \notin PlayerIds
        /\ resp[r].action = "ban"

(* C8: once a critical report naming a registered player has been served,   *)
(* the player is banned.                                                     *)
CriticalReportSuspends ==
    \A p \in PlayerIds :
        (ReportCounted(p) /\ Last(tamperingLogs).severity = "critical")
            => players[p].isBanned

(* C9: once a non-critical report has taken a registered player's counter   *)
(* to the threshold, the player is banned with banTimestamp set and the      *)
(* report was answered with action "ban".                                    *)
ReportAppliesThreshold ==
    \A p \in PlayerIds : \A r \in Slots :
        (/\ ReportCounted(p) /\ Last(tamperingLogs).severity # "critical"
         /\ pc[r] = "done" /\ resp[r].action = "warn"
         /\ players[p].tamperingAttempts >= maxTamperingAttempts)
            => /\ players[p].isBanned
               /\ players[p].banTimestamp # NoTime

(* C10: verifyGameValues answers valid whenever the player's gameData is    *)
(* absent or has no keys, whatever the values, powerups and timestamps.      *)
NoHistoryIsValid ==
    (/\ vout.evaluated
     /\ (~Has(vin.player, "gameData") \/ DOMAIN vin.player.gameData = {}))
        => vout.isValid

RejectableCallWithoutHistory ==
    /\ vout.evaluated
    /\ Has(vin.player, "gameData") /\ DOMAIN vin.player.gameData = {}
    /\ ~vin.clientTimestamp.parsable
    /\ vin.newValues # EmptyData

\* the call under vin has gone through to the value rules
RulesReached ==
    /\ vout.evaluated
    /\ Has(vin.player, "gameData") /\ DOMAIN vin.player.gameData # {}
    /\ vin.clientTimestamp.parsable
    /\ vin.clientTimestamp.ms <= vin.currentTime + FutureToleranceMs

\* max(0, clientTimestamp - lastSync) in milliseconds, created standing in
\* for a lastSync that is not there yet
ElapsedMs ==
    Max0(vin.clientTimestamp.ms
         - (IF vin.player.lastSync # NoTime THEN vin.player.lastSync
                                            ELSE vin.player.created))

Both(k) == Has(vin.newValues, k) /\ Has(vin.player.gameData, k)

\* proposed - old > rate * elapsedMinutes, over the rationals
OverBound(k, rate) ==
    (vin.newValues[k] - vin.player.gameData[k]) * MsPerMinute > rate * ElapsedMs

HealthRulesPass ==
    /\ ~HealthCapViolated(vin.player.gameData, vin.newValues, vin.powerups)
    /\ ~HealthRegenViolated(vin.player.gameData, vin.newValues, vin.powerups,
                            DoubleDiv(ElapsedMs, MsPerMinute))

(* C11: with old and proposed coins present and the health rules passed,   *)
(* the call fails with "Coins increased too fast" exactly when the increase  *)
(* is above maxCoinsPerMinute * elapsedMinutes, and succeeds at or below it  *)
(* when xp passes too.                                                       *)
CoinsBoundExact ==
    (RulesReached /\ Both("coins") /\ HealthRulesPass) =>
        /\ (vout.reason = "Coins increased too fast")
              <=> OverBound("coins", maxCoinsPerMinute)
        /\ (/\ ~OverBound("coins", maxCoinsPerMinute)
            /\ ~(Both("xp") /\ OverBound("xp", maxXpPerMinute)))
              => vout.isValid

(* C12: a proposed health not above max, above a prior health below max by *)
(* more than regenRate * elapsedMinutes and with no "health" powerup, is     *)
(* rejected with "Health increased too fast".                                *)
FastRegenRejected ==
    (/\ RulesReached /\ Both("health")
     /\ "health" \notin vin.powerups
     /\ vin.player.gameData["health"]
           < OrDefault(vin.player.gameData, "maxHealth", DefaultMaxHealth)
     /\ vin.newValues["health"]
           <= OrDefault(vin.player.gameData, "maxHealth", DefaultMaxHealth)
     /\ OverBound("health",
                  OrDefault(vin.player.gameData, "healthRegenRate", DefaultRegenRate)))
        => ~vout.isValid /\ vout.reason = "Health increased too fast"

FastRegenAtCustomRate ==
    /\ RulesReached /\ ~vout.isValid
    /\ Has(vin.player.gameData, "healthRegenRate")
    /\ Both("health") /\ vin.newValues["health"] = 56
    /\ vin.clientTimestamp.ms = TickMs
    /\ vin.player.lastSync = 0

\* the coin and xp rules as the code decides them
CoinsRuleFails ==
    /\ Both("coins")
    /\ ExceedsRate(vin.newValues["coins"], vin.player.gameData["coins"],
                   maxCoinsPerMinute, DoubleDiv(ElapsedMs, MsPerMinute))
XpRuleFails ==
    /\ Both("xp")
    /\ ExceedsRate(vin.newValues["xp"], vin.player.gameData["xp"],
                   maxXpPerMinute, DoubleDiv(ElapsedMs, MsPerMinute))
HealthCapFails ==
    /\ Both("health") /\ "health" \notin vin.powerups
    /\ vin.newValues["health"]
          > OrDefault(vin.player.gameData, "maxHealth", DefaultMaxHealth)
HealthRegenFails ==
    /\ Both("health") /\ "health" \notin vin.powerups
    /\ vin.newValues["health"] > vin.player.gameData["health"]
    /\ vin.player.gameData["health"]
          < OrDefault(vin.player.gameData, "maxHealth", DefaultMaxHealth)
    /\ ExceedsRate(vin.newValues["health"], vin.player.gameData["health"],
                   OrDefault(vin.player.gameData, "healthRegenRate", DefaultRegenRate),
                   DoubleDiv(ElapsedMs, MsPerMinute))

(* C13: once the value rules are reached, the reason is that of the first  *)
(* failing rule in the order health cap, health regeneration, coins, xp,     *)
(* and the result is valid when none fails.                                  *)
FirstViolatedRuleWins ==
    RulesReached =>
        IF HealthCapFails
            THEN ~vout.isValid /\ vout.reason = "Health exceeds maximum allowed value"
        ELSE IF HealthRegenFails
            THEN ~vout.isValid /\ vout.reason = "Health increased too fast"
        ELSE IF CoinsRuleFails
            THEN ~vout.isValid /\ vout.reason = "Coins increased too fast"
        ELSE IF XpRuleFails
            THEN ~vout.isValid /\ vout.reason = "XP increased too fast"
        ELSE vout.isValid

SeveralRulesViolated ==
    /\ RulesReached
    /\ HealthCapFails /\ CoinsRuleFails /\ XpRuleFails
    /\ vout.reason = "Health exceeds maximum allowed value"

(* C14: for a player with game data, a clientTimestamp that does not parse *)
(* is rejected, one more than five minutes after the server's time is       *)
(* rejected, and one exactly five minutes after it or earlier is not        *)
(* rejected for its time.                                                    *)
TimestampRule ==
    (/\ vout.evaluated
     /\ Has(vin.player, "gameData") /\ DOMAIN vin.player.gameData # {}) =>
        /\ ~vin.clientTimestamp.parsable
              => ~vout.isValid /\ vout.reason = "Invalid client timestamp"
        /\ (/\ vin.clientTimestamp.parsable
            /\ vin.clientTimestamp.ms > vin.currentTime + FutureToleranceMs)
              => /\ ~vout.isValid
                 /\ vout.reason = "Client timestamp is too far in the future"
        /\ (/\ vin.clientTimestamp.parsable
            /\ vin.clientTimestamp.ms <= vin.currentTime + FutureToleranceMs)
              => vout.reason \notin {"Invalid client timestamp",
                                     "Client timestamp is too far in the future"}

ExactlyFiveMinutesAheadAccepted ==
    /\ RulesReached
    /\ vin.clientTimestamp.ms = vin.currentTime + FutureToleranceMs
    /\ vout.isValid
    /\ vin.newValues # EmptyData

(* C15: a call of verifyGameValues leaves the record it is given and the   *)
(* three collections as they were, whatever it answers.                      *)
VerifyChangesNothing ==
    [][vout' # vout => vin' = vin /\ storeVars' = storeVars]_vars

RejectedCallDone ==
    /\ RulesReached
    /\ ~vout.isValid
    /\ vin.player.tamperingAttempts = 0 /\ ~vin.player.isBanned

\* the step is slot r's own: no other request moves in it
OwnStep(r) == \A q \in Slots \ {r} : pc'[q] = pc[q] \/ pc[q] = "done"

(* C16: the step that answers a request 400 (malformed) or 401              *)
(* (unauthorized) leaves every player record and the tampering log as they   *)
(* were, tamperingAttempts included, and the request is over with it.        *)
RefusedRequestTouchesNothing ==
    [][\A r \in Slots :
          (pc'[r] = "done" /\ resp'[r].code \in {400, 401} /\ OwnStep(r))
          => players' = players /\ tamperingLogs' = tamperingLogs]_vars

MalformedRequestRefused ==
    \E r \in Slots :
        /\ pc[r] = "done" /\ resp[r].code = 400
        /\ \E p \in PlayerIds : players[p].tamperingAttempts > 0

SyncEntries(doc) == Cardinality({i \in 1..Len(doc.tampering) : doc.tampering[i] = SyncEntry})

RejectedAnswers == Cardinality({r \in Slots : resp[r].status = "invalid"})

RacingReports == Cardinality({r \in Slots : sent[r].kind = "report"})

(* C17: when the racing requests are over, the player's tampering history   *)
(* has one more sync entry for each sync answered as invalid and none for    *)
(* a sync answered as valid, and tamperingAttempts has grown by the number   *)
(* of new entries; two identical rejected syncs count twice.                 *)
OneEntryPerRejectedSync ==
    AllDone =>
        \A p \in PlayerIds :
            /\ SyncEntries(players[p]) = SyncEntries(base) + RejectedAnswers
            /\ Len(players[p].tampering)
                  = Len(base.tampering) + RejectedAnswers + RacingReports
            /\ players[p].tamperingAttempts - base.tamperingAttempts
                  = Len(players[p].tampering) - Len(base.tampering)

IdenticalRejectedSyncsBothCounted ==
    /\ AllDone
    /\ \A r \in Slots : sent[r].kind = "sync" /\ sent[r] = sent[1]
    /\ RejectedAnswers = Cardinality(Slots)
    /\ \E p \in PlayerIds :
          players[p].tamperingAttempts = base.tamperingAttempts + Cardinality(Slots)

(* C18: while db is not set, no register or sync request is in progress or *)
(* has been answered as accepted or rejected: a slot is empty or holds a     *)
(* 401, a 503 or the answer to a report; no violation is counted and the     *)
(* collections are as they started.                                          *)
UnavailableMeans503 ==
    ~db =>
        /\ \A r \in Slots :
              /\ Idle(r)
              /\ \/ resp[r] = NoResp
                 \/ resp[r].code \in {401, 503}
                 \/ resp[r].action \in {"warn", "ban"} /\ resp[r].status = ""
        /\ \A p \in Ids : ~players[p].exists /\ violations[p] = 0
        /\ tamperingLogs = <<>> /\ syncLogs = <<>>

UnavailableAnswered == ~db /\ \E r \in Slots : resp[r].code = 503

\* a value as a caller compares it: an object by its content, where a
\* property that is undefined counts as a property that is not there
Content(value) ==
    IF value.tag # "object" THEN value
    ELSE [tag |-> "object",
          hp |-> IF heap[value.n].tag = "undefined" THEN Absent ELSE heap[value.n]]

(* C19: when set(v) has been called and only get and verify since, a get    *)
(* that returned gave a value equal to v, and a verify that returned gave   *)
(* true.                                                                     *)
SetThenGetGivesValue ==
    fresh /\ ~call.threw =>
        /\ call.op = "get" => Content(got) = Content(passed)
        /\ call.op = "verify" => call.ok

\* the stored checksum is the checksum of currentValue
ChecksumStored ==
    LET checksum == calculateChecksum(gameValue.currentValue, heap)
    IN ~checksum.threw /\ gameValue.checksums = <<checksum.text>>

(* C20: between two calls of the container the stored checksum is the       *)
(* checksum of currentValue, unless currentValue was written past the        *)
(* container since the last completed set or reset.                          *)
ChecksumMatchesValue == ~tampered => ChecksumStored

\* what verify() would answer
Verdict ==
    LET checked == isChecksumValid(gameValue, heap)
    IN [threw |-> checked.threw, ok |-> ~checked.threw /\ checked.valid]

(* C21: a write of the caller into the object it passed to the constructor  *)
(* or to set, or into an object get returned, changes neither currentValue  *)
(* nor originalValue, and verify() answers after it what it answered before. *)
CallerWritesStayOutside ==
    [][call'.op = "write" =>
          /\ Content(gameValue.currentValue)' = Content(gameValue.currentValue)
          /\ Content(gameValue.originalValue)' = Content(gameValue.originalValue)
          /\ Verdict' = Verdict]_vars

\* currentValue has just been written past the container and its checksum
\* is not the stored one
Mismatch == call.op = "tamper" /\ ~Verdict.threw /\ ~Verdict.ok

(* C22: in a state where currentValue was written past the container and    *)
(* its checksum differs from the stored one, verify() returns false, get()   *)
(* returns the current value and set(v) stores v, none of them throwing; and *)
(* a verify() that follows a set that returned gives true.                   *)
MismatchIsReportedNotThrown ==
    [][/\ Mismatch /\ call'.op = "verify" => ~call'.threw /\ ~call'.ok
       /\ Mismatch /\ call'.op = "get" =>
             ~call'.threw /\ Content(got)' = Content(gameValue.currentValue)
       /\ Mismatch /\ call'.op = "set" =>
             ~call'.threw /\ Content(gameValue.currentValue)' = Content(passed)'
       /\ call.op = "set" /\ ~call.threw /\ call'.op = "verify" =>
             ~call'.threw /\ call'.ok]_vars

(* C23: reset() returns and leaves currentValue equal to the value the       *)
(* container was made from, whatever happened before; a get() that follows   *)
(* it returns that value and a verify() that follows it returns true.        *)
ResetRestoresGiven ==
    [][/\ call'.op = "reset" =>
             ~call'.threw /\ Content(gameValue.currentValue)' = given
       /\ call.op = "reset" /\ call'.op = "get" =>
             ~call'.threw /\ Content(got)' = given
       /\ call.op = "reset" /\ call'.op = "verify" =>
             ~call'.threw /\ call'.ok]_vars


(* C24: the Android guardian is Running from startProtection() to            *)
(* stopProtection() and Stopped otherwise, and while it is Stopped no check  *)
(* cycle starts: the executor begins a task of checkIntegrity only while     *)
(* isProtectionActive is true.                                               *)
StoppedStartsNoCheck ==
    [][android.running = "none" /\ android'.running = "check" =>
          android.isProtectionActive]_vars

(* C25: the answer to a value sync that arrives while the Android guardian   *)
(* is Stopped changes neither gameValues nor the protected value.            *)
LateAnswerChangesNothing ==
    [][android.running = "sync" /\ android'.running = "none"
       /\ ~android.isProtectionActive =>
          /\ android'.gameValues = android.gameValues
          /\ android'.protectedValue = android.protectedValue]_vars

(* C26: start() runs its first check before it sets isRunning or a timer,    *)
(* and where that check has detected something start() returns false with    *)
(* isRunning false and no timer set.                                         *)
DetectionRefusesStart ==
    /\ cycle.by = "start" /\ cycle.at # "idle" =>
          ~shield.isRunning /\ ~shield.intervalId
    /\ cycle.by = "start" /\ cycle.at = "idle" /\ ~cycle.last.threw
       /\ cycle.criticalIssueDetected =>
          /\ cycle.last = Returned("start", FALSE)
          /\ ~shield.isRunning
          /\ ~shield.intervalId

\* start() has returned false after a first check that found a cheat tool
StartRefused ==
    /\ cycle.last = Returned("start", FALSE)
    /\ cycle.events = <<"TOOL_DETECTED">>

\* the order the probes are to run in
ProbeOrder == <<"tool", "memory", "debugger", "emulator">>

(* C27: in a cycle of the web guardian the probes run in the order Tool,     *)
(* Memory, Debugger, Emulator, no probe runs after one that has detected,    *)
(* and at most one probe raises an event.                                    *)
CycleStopsAtFirstDetection ==
    /\ \A i \in DOMAIN cycle.ran : cycle.ran[i].probe = ProbeOrder[i]
    /\ \A i, j \in DOMAIN cycle.ran : i < j => ~cycle.ran[i].detected
    /\ Cardinality({i \in DOMAIN cycle.events :
                       cycle.events[i] # "VALUE_TAMPERING"}) <= 1

(* C28: isVerifying is true while runChecks verifies the protected values,   *)
(* every hook called by then has returned true, and isVerifying is false     *)
(* whenever no call of the shield is running.                                *)
VerifyingOnlyWhileChecking ==
    /\ cycle.at = "values" => shield.isVerifying
    /\ \A i \in DOMAIN cycle.hooks : cycle.hooks[i]
    /\ cycle.at = "idle" => ~shield.isVerifying

(* C29: while the executor runs a check cycle of the Android guardian no     *)
(* other check cycle waits in its queue: a cycle triggered by then is        *)
(* dropped.                                                                  *)
RunningCheckSuppressesNext ==
    android.running = "check" =>
        \A i \in DOMAIN android.queue : android.queue[i] # "check"


(* C30: no step of a rejected sync changes gameData or lastSync of the       *)
(* player's record, and the values of its 200 "invalid" answer are the       *)
(* gameData of the record as the handler read it, which is the stored        *)
(* gameData where no other request is in progress.                           *)
RejectedSyncKeepsRecord ==
    [][\A r \in Slots :
          LET id == req[r].playerId
          IN /\ pc[r] = "syncRead" /\ pc'[r] = "syncInc" =>
                   /\ players' = players
                   /\ loc'[r].gameData = players[id].gameData
             /\ pc[r] \in {"syncInc", "syncReread", "syncBan"} /\ pc'[r] # pc[r] =>
                   /\ players'[id].gameData = players[id].gameData
                   /\ players'[id].lastSync = players[id].lastSync
             /\ pc[r] = "syncReread" /\ pc'[r] = "done" =>
                   /\ resp'[r].code = 200 /\ resp'[r].status = "invalid"
                   /\ resp'[r].values = loc[r].gameData
                   /\ load.clients = 1 =>
                         resp'[r].values = players[id].gameData]_vars

\* a rejected sync has been answered 200 with the stored gameData of a
\* player that has some
RejectedSyncAnswered ==
    \E r \in Slots, id \in PlayerIds :
        /\ resp[r].code = 200 /\ resp[r].status = "invalid"
        /\ players[id].exists
        /\ players[id].gameData # EmptyData
        /\ players[id].lastSync # NoTime
        /\ resp[r].values = players[id].gameData


\* the last step was the end of a sync whose answer was "invalid" with a
\* value under the game's key
InvalidAnswerApplied ==
    /\ android.answer.status = "invalid"
    /\ android.answer.value # Absent
    /\ android.gameValues # Absent

(* C31: when the answer "invalid" to a sync carries a value under the game's *)
(* key, then once the answer has been applied the local gameValues holds     *)
(* that value under the key, and so does the game's protected value.         *)
ServerValuesReplaceMirror ==
    [][android.running = "sync" /\ android'.running = "none" /\ InvalidAnswerApplied' =>
          /\ android'.gameValues = android'.answer.value
          /\ android'.protectedValue = android'.answer.value]_vars

\* a playerId or deviceId that is present and at most 100 characters long
Acceptable(field) == field # NoId /\ Len(field) <= MaxFieldLength

\* the labels of a register-player request that was not refused
RegisterLabels == {"regFind", "regUpdate", "regInsert"}

KnownSeverities == {"low", "medium", "high", "critical"}
StoredSeverities == KnownSeverities \cup {"unknown"}

(* C33: every stored tampering event has one of the severities low, medium, *)
(* high, critical, unknown; a report whose severity is none of the first    *)
(* four (the Android client's "warning") is stored as unknown and answered  *)
(* 200 with action "warn", a report with one of the four is stored with it. *)
StoredSeverityIsKnown ==
    [][/\ \A i \in 1..Len(tamperingLogs') :
             tamperingLogs'[i].severity \in StoredSeverities
       /\ \A r \in Slots :
             /\ pc[r] # "tlogInsert" /\ pc'[r] = "tlogInsert"
                /\ req'[r].severity \notin KnownSeverities =>
                   /\ resp'[r].code = 200
                   /\ resp'[r].action = "warn"
             /\ pc[r] = "tlogInsert" /\ pc'[r] # "tlogInsert" =>
                   LET event == tamperingLogs'[Len(tamperingLogs')]
                   IN /\ Len(tamperingLogs') = Len(tamperingLogs) + 1
                      /\ event.playerId = req[r].playerId
                      /\ event.severity =
                            IF req[r].severity \in KnownSeverities
                               THEN req[r].severity ELSE "unknown"
                      /\ req[r].severity \notin KnownSeverities =>
                            /\ resp[r].code = 200
                            /\ resp[r].action = "warn"
                            /\ resp'[r] = resp[r]]_vars

\* a report with severity "warning" has been stored as unknown and answered
\* with the warning
WarningStoredUnknown ==
    \E r \in Slots, i \in 1..Len(tamperingLogs) :
        /\ tamperingLogs[i] = [severity |-> "unknown", playerId |-> "p1"]
        /\ pc[r] = "done"
        /\ resp[r].code = 200 /\ resp[r].action = "warn"
        /\ \A j \in 1..Len(tamperingLogs) : tamperingLogs[j].severity = "unknown"


\* the scan of this step is the first of its scanner, or comes at most five
\* seconds after the scan before it
ScanExpectedQuiet ==
    LET timeDiff == TimeDiff(DateNow(shield.clock), shield.scanner.lastScanTime)
    IN \/ shield.scanner.lastScanTime = TimeZero
       \/ ~TimeNegative(timeDiff) /\ ~TimeAbove(timeDiff, expectedMaxDiff)

(* C34: the first scan of a new MemoryScanner, and every later scan within   *)
(* five seconds of the scan before it, reports tampered = false (no region   *)
(* is ever changed: the scanner reads no memory); so the first check of a    *)
(* guardian whose other probes detect nothing finds nothing, and start()     *)
(* then returns true with the guardian Running.                              *)
QuietScanFindsNothing ==
    [][/\ cycle.at = "memory" /\ cycle'.at = "values" /\ ScanExpectedQuiet =>
             /\ ~cycle'.ran[Len(cycle'.ran)].detected
             /\ cycle'.criticalIssueDetected = cycle.criticalIssueDetected
             /\ cycle'.events = cycle.events
       /\ cycle.at = "report" /\ cycle'.at = "idle" /\ cycle.by = "start"
          /\ ~cycle'.criticalIssueDetected =>
             /\ cycle'.last = Returned("start", TRUE)
             /\ shield'.isRunning]_vars


\* the severity runChecks gives to the event of each type
EventSeverity(type) ==
    CASE type = "TOOL_DETECTED" -> "critical"
      [] type = "MEMORY_TAMPERING" -> "high"
      [] type = "VALUE_TAMPERING" -> "high"

(* C35: start() returns false only where its first check raised an event of *)
(* severity critical; a first check that raised events of severity high     *)
(* only (memory tampering, value tampering) lets the guardian enter Running. *)
OnlyCriticalRefusesStart ==
    cycle.by = "start" /\ cycle.at = "idle" /\ ~cycle.last.threw =>
        /\ cycle.last = Returned("start", FALSE) =>
              \E i \in DOMAIN cycle.events :
                  EventSeverity(cycle.events[i]) = "critical"
        /\ (\A i \in DOMAIN cycle.events :
               EventSeverity(cycle.events[i]) # "critical") =>
              shield.isRunning


(* C36: the guardian has one timer where isRunning is true and none where   *)
(* it is false, after every step; start() on a Running guardian returns     *)
(* true and changes nothing, without a check, and a check begun by start()  *)
(* begins on a Stopped guardian; stop() on a Stopped guardian changes       *)
(* nothing.                                                                  *)
OneTimerWhileRunning ==
    [][/\ shield'.timers = (IF shield'.isRunning THEN 1 ELSE 0)
       /\ shield'.intervalId <=> shield'.isRunning
       /\ cycle.at = "idle" /\ cycle'.at = "tool" /\ cycle'.by = "start" =>
             ~shield.isRunning
       /\ cycle.at = "idle" /\ cycle'.at = "idle" /\ cycle' # cycle
          /\ cycle'.last.op = "start" =>
             /\ shield.isRunning
             /\ cycle' = [NoCycle EXCEPT !.last = Returned("start", TRUE)]
             /\ shield' = shield
       /\ cycle.at = "idle" /\ cycle' # cycle /\ cycle'.last.op = "stop"
          /\ ~shield.isRunning =>
             shield' = shield]_vars

\* start() has returned true on a guardian that was Running, and the one
\* timer is the one set before
StartedTwice ==
    /\ shield.isRunning
    /\ shield.timers = 1
    /\ cycle = [NoCycle EXCEPT !.last = Returned("start", TRUE)]


(* C37: no step changes gameData or lastSync of a player whose isBanned is  *)
(* true, whatever requests are in progress.                                  *)
BannedRecordFrozen ==
    [][\A id \in Ids :
          players[id].exists /\ players[id].isBanned =>
             /\ players'[id].gameData = players[id].gameData
             /\ players'[id].lastSync = players[id].lastSync]_vars


(* C38: the coins stored for a player have grown, since the record was made,  *)
(* by no more than maxCoinsPerMinute for each minute the server's clock has   *)
(* advanced since then and for the five minutes of clock tolerance, whatever  *)
(* clientTimestamp the syncs carried.                                         *)
CoinsGainWithinRealTime ==
    \A id \in PlayerIds :
        players[id].exists /\ now > base.created =>
            (players[id].gameData.coins - base.gameData.coins) * MsPerMinute
                <= maxCoinsPerMinute * ((now - base.created) + FutureToleranceMs)


\* the proposed value of a quantity is there and not above this limit, or
\* the quantity is not proposed
NotAbove(newValues, k, limit) == Has(newValues, k) => newValues[k] <= limit

\* no proposed quantity is above the stored one, and health not above the
\* stored maximum
NothingIncreased ==
    LET gameData == vin.player.gameData
    IN /\ \A k \in {"health", "coins", "xp"} :
             Has(vin.newValues, k) =>
                 Has(gameData, k) /\ vin.newValues[k] <= gameData[k]
       /\ NotAbove(vin.newValues, "health",
                   IF Has(gameData, "maxHealth") THEN gameData["maxHealth"] ELSE 100)

(* C39: for a player with game data and a clientTimestamp that parses and is *)
(* not more than five minutes ahead, proposed values of health, coins and xp *)
(* that are none above the stored ones (health not above the stored maximum) *)
(* are accepted, also where clientTimestamp is before the last sync.         *)
NonIncreaseAccepted ==
    /\ vout.evaluated
    /\ Has(vin.player, "gameData") /\ DOMAIN vin.player.gameData # {}
    /\ vin.clientTimestamp.parsable
    /\ vin.clientTimestamp.ms <= vin.currentTime + 5 * 60 * 1000
    /\ NothingIncreased
    => vout.isValid

\* values none above the stored ones were accepted with a clientTimestamp
\* before the last sync
EarlierTimestampAccepted ==
    /\ vout.evaluated /\ vout.isValid
    /\ Has(vin.player, "gameData")
    /\ vin.player.gameData = [health |-> 50, maxHealth |-> 100, coins |-> 100, xp |-> 50]
    /\ vin.newValues = [health |-> 50, coins |-> 100, xp |-> 50]
    /\ vin.clientTimestamp.parsable
    /\ vin.player.lastSync # NoTime
    /\ vin.clientTimestamp.ms < vin.player.lastSync


(* C40: a call of applyCountermeasures counts one attempt more and applies  *)
(* the terminal countermeasures where the new count is at least             *)
(* maxTamperingAttempts, the warning ones otherwise; maxTamperingAttempts   *)
(* is a number of at least 1 after every call of setMaxTamperingAttempts;   *)
(* and the count only goes down, to 0, in resetTamperingAttempts.            *)
AttemptsCountedAgainstLimit ==
    [][/\ cycle'.last.op = "applyCountermeasures" /\ shield' # shield =>
             /\ shield'.detectedTamperingAttempts = shield.detectedTamperingAttempts + 1
             /\ shield'.countermeasures \in {"terminal", "warning"}
             /\ shield'.countermeasures = "terminal" <=>
                   /\ shield.maxTamperingAttempts.tag = "number"
                   /\ shield'.detectedTamperingAttempts >= shield.maxTamperingAttempts.n
       /\ (\/ shield'.maxTamperingAttempts # shield.maxTamperingAttempts
           \/ cycle'.last.op = "setMaxTamperingAttempts") =>
             /\ shield'.maxTamperingAttempts.tag = "number"
             /\ shield'.maxTamperingAttempts.n >= 1
       /\ shield'.detectedTamperingAttempts < shield.detectedTamperingAttempts =>
             /\ cycle'.last.op = "resetTamperingAttempts"
             /\ shield'.detectedTamperingAttempts = 0]_vars


====
